---- MODULE Spec2Model ----
(***************************************************************************)
(* Course orchestration layer of CCProjectSynth: the worker pool           *)
(* (runWorkerPool), the shutdown controller (setupShutdownHandler,         *)
(* shouldContinueProcessing, emergencyHandler), processCourse, the course  *)
(* state detector (detectCourseState), the chunk planner                   *)
(* (createSrtChunks) and the event bus (SynthEventEmitter).                *)
(*                                                                         *)
(* The program runs on a single JavaScript thread: a callback runs from    *)
(* the point where it is resumed to its next await without interruption.   *)
(* Every action below is one such run-to-completion step.                  *)
(***************************************************************************)
EXTENDS Integers, Sequences, FiniteSets, TLC

\* Bounds of the model.
MaxCourses == 3
MaxConcurrency == 2
MaxSignals == 2
MaxScans == 3
MaxSrts == 24
MaxEvents == 2
MaxProjects == 2
MaxRuns == 2

VARIABLES
    courses,          \* runWorkerPool argument: Course[] (path, state)
    concurrency,      \* options.concurrency
    poolPc,           \* "notStarted" | "running" | "returned"
    queue,            \* const queue = [...pendingCourses]
    results,          \* const results: CourseResult[]
    activeWorkers,    \* Map<workerId, coursePath>
    stats,            \* PoolStats
    workerPc,         \* per worker: "unborn" | "awaiting" | "exited"
    emitted,          \* events handed to eventEmitter.emit, in order
    controller,       \* ShutdownController {isShuttingDown, forceExit}
    ctrlCCount,       \* let ctrlCCount = 0 in setupShutdownHandler
    exitTimer,        \* setTimeout(() => process.exit(1), 100) is pending
    processExited,    \* process.exit has run
    exitCode,         \* the argument of that process.exit call, -1 before it
    emergencyInstalled,   \* index.ts registered emergencyHandler for the signals
    emergencyCtrlCCount,  \* let emergencyCtrlCCount = 0 in index.ts
    disk,             \* the course directory seen by detectCourseState
    disk0,            \* the course directory before the first scan
    scanned,          \* state returned by the last detectCourseState call
    scans,            \* number of detectCourseState calls made
    pipeline,         \* discovery step of runCourseAgent for the course
    srts,             \* createSrtChunks argument: SrtFile[]
    chunks,           \* SrtChunk[] returned by createSrtChunks
    chunkPc,          \* "notCalled" | "returned"
    listeners,        \* SynthEventEmitter.listeners, in insertion order
    throwing,         \* the listeners whose callback throws
    calls,            \* listener invocations made by emit, in order
    published,        \* per emit call: the listeners subscribed at the call
    returns,          \* per emit call: "normal" or "threw"
    firstOn,          \* per listener: events published before its on(), -1 before
    subOrder,         \* the subscribed listeners, in the order they subscribed
    unsubscribed,     \* per listener: its unsubscribe function was called (when first, and again)
    largePc,          \* runLargeProjectGeneration: "notCalled" | "architect" | "chunk" | "returned"
    chunkNo,          \* position of `for (const chunk of chunks)`, 1-based
    allFilesCreated,  \* const allFilesCreated: string[]
    allErrors,        \* const allErrors: string[]
    largeResult,      \* the GeneratedProject returned, "none" before
    chunkCalls,       \* the runChunkedGenerator calls made, with what each was passed
    agent,            \* per worker: the runCourseAgent call it waits on
    manifestFile,     \* per course: project-findings.json on disk
    discoveryCalls,   \* per course: runDiscoveryAgent calls made so far
    agentResult,      \* per course: the AgentResult returned, "none" before
    errorLog,         \* error.log in the input directory: the entries appended
    atEmit,           \* per closing event: what the pool held when it was emitted
    tuiPc,            \* launchTUI/startTUI: "notLaunched" | "preload" | "app" | "subscribed" | "timer" | "resolved"
    synthPc,          \* runSynthesizer (TUI): "notCalled" | "importLauncher" | "scanning" | "pool" | "awaitTui" | "returned"
    mainPc,           \* main(): "notStarted" | "synthesizer" | "exited"
    args,             \* parseArgs result and the input directory on disk
    runs              \* runs of the program over the input directory so far

poolVars == <<courses, concurrency, poolPc, queue, results, activeWorkers,
              stats, workerPc, emitted>>
shutdownVars == <<controller, ctrlCCount, exitTimer, processExited, exitCode,
                  emergencyInstalled, emergencyCtrlCCount>>
scanVars == <<disk, disk0, scanned, scans, pipeline>>
chunkVars == <<srts, chunks, chunkPc>>
busVars == <<listeners, throwing, calls, published, returns, firstOn, subOrder,
             unsubscribed>>
largeVars == <<largePc, chunkNo, allFilesCreated, allErrors, largeResult, chunkCalls>>
agentVars == <<agent, manifestFile, discoveryCalls, agentResult>>
mainVars == <<mainPc, args, runs>>
tuiVars == <<tuiPc, synthPc>>
pipeVars == <<largeVars, agentVars, errorLog, atEmit, tuiVars, mainVars>>
vars == <<poolVars, shutdownVars, scanVars, chunkVars, busVars, pipeVars>>

----------------------------------------------------------------------------
\* Input domains.

CourseStates == {"pending", "skipped"}

\* Course lists as the scanner builds them: one entry per course directory,
\* so paths are distinct (the path of the i-th course is i).
CourseLists ==
    UNION {{[i \in 1..n |-> [path |-> i, state |-> f[i]]] : f \in [1..n -> CourseStates]}
           : n \in 0..MaxCourses}

\* What runCourseAgent / loadAllSrtContents can do inside processCourse:
\* return one of the three AgentResult statuses, or throw.
AgentOutcomes == {"complete", "no_projects", "failed", "throws"}

Workers == 0..(concurrency - 1)

\* The callbacks the program passes to SynthEventEmitter.on: the console
\* logger, the dashboard state handler and the completion watcher of startTUI.
Listeners == {"console", "appState", "tuiDone"}

----------------------------------------------------------------------------
\* Events (SynthEvent values handed to eventEmitter.emit).

EvPoolStart(n) == [type |-> "pool:start", workerCount |-> n]
EvStatsUpdate(s) == [type |-> "stats:update", stats |-> s]
EvPoolComplete(s) == [type |-> "pool:complete", stats |-> s]
EvWorkerIdle(w) == [type |-> "worker:idle", workerId |-> w]
EvWorkerStart(w, c) == [type |-> "worker:start", workerId |-> w, course |-> c]
EvDiscoveryStart(w) == [type |-> "worker:discovery:start", workerId |-> w]
EvWorkerComplete(w, r) == [type |-> "worker:complete", workerId |-> w, result |-> r]
EvWorkerError(w, c) == [type |-> "worker:error", workerId |-> w, coursePath |-> c]
EvShutdownSignal(n) == [type |-> "shutdown:signal", count |-> n]

----------------------------------------------------------------------------
\* Shutdown controller.

\* Faulty variant: the flag is ignored and dispatch goes on during shutdown.
shouldContinueProcessingAlways(ctrl) == TRUE

shouldContinueProcessing(ctrl) == ~ctrl.isShuttingDown

\* emergencyHandler (index.ts), called with the count of earlier signals.
\* shutdownControllerRef is linked before main() reaches its first await, so
\* it is set whenever a signal is handled.  From the second signal on the
\* handler ends the process at once, with process.exit(0).
emergencyHandler(ctrl, count) ==
    LET n == count + 1 IN
    [count |-> n,
     controller |-> [isShuttingDown |-> TRUE,
                     forceExit |-> IF n >= 2 THEN TRUE ELSE ctrl.forceExit],
     exited |-> n >= 2,
     code |-> 0]

\* Faulty variant: a later signal takes the graceful stop back.
handleSignalToggle(ctrl, count) ==
    LET n == count + 1 IN
    IF n = 1
    THEN [count |-> n,
          controller |-> [ctrl EXCEPT !.isShuttingDown = TRUE],
          events |-> <<EvShutdownSignal(1)>>,
          timer |-> FALSE]
    ELSE [count |-> n,
          controller |-> [ctrl EXCEPT !.isShuttingDown = FALSE, !.forceExit = TRUE],
          events |-> <<EvShutdownSignal(2)>>,
          timer |-> TRUE]

\* Faulty variant: the first signal already forces the exit.
handleSignalForceFirst(ctrl, count) ==
    LET n == count + 1 IN
    [count |-> n,
     controller |-> [ctrl EXCEPT !.isShuttingDown = TRUE, !.forceExit = TRUE],
     events |-> <<EvShutdownSignal(n)>>,
     timer |-> TRUE]

\* handleSignal (shutdown.ts), called with the count of earlier signals: the
\* first signal requests a graceful stop, any later one sets forceExit and
\* arms the exit timer.  The emitter is attached before runSynthesizer
\* reaches its first await.
handleSignal(ctrl, count) ==
    LET n == count + 1 IN
    IF n = 1
    THEN [count |-> n,
          controller |-> [ctrl EXCEPT !.isShuttingDown = TRUE],
          events |-> <<EvShutdownSignal(1)>>,
          timer |-> FALSE]
    ELSE [count |-> n,
          controller |-> [ctrl EXCEPT !.forceExit = TRUE],
          events |-> <<EvShutdownSignal(2)>>,
          timer |-> TRUE]

\* SIGINT or SIGTERM is delivered: the handlers registered for it run in
\* registration order, emergencyHandler (when index.ts installed it) before
\* handleSignal; a handler that ends the process keeps the next from running.
Signal ==
    /\ ~processExited
    /\ ctrlCCount < MaxSignals
    /\ LET em == IF emergencyInstalled
                 THEN emergencyHandler(controller, emergencyCtrlCCount)
                 ELSE [count |-> emergencyCtrlCCount,
                       controller |-> controller,
                       exited |-> FALSE,
                       code |-> 0]
       IN  /\ emergencyCtrlCCount' = em.count
           /\ IF em.exited
              THEN /\ controller' = em.controller
                   /\ processExited' = TRUE
                   /\ exitCode' = em.code
                   /\ UNCHANGED <<ctrlCCount, emitted, exitTimer>>
              ELSE LET hs == handleSignal(em.controller, ctrlCCount) IN
                   /\ controller' = hs.controller
                   /\ ctrlCCount' = hs.count
                   /\ emitted' = emitted \o hs.events
                   /\ exitTimer' = (exitTimer \/ hs.timer)
                   /\ UNCHANGED <<processExited, exitCode>>
    /\ UNCHANGED <<courses, concurrency, poolPc, queue, results, activeWorkers,
                   stats, workerPc, emergencyInstalled, scanVars, chunkVars,
                   busVars, pipeVars>>

\* The timer armed by the second signal fires: process.exit(1).  Whatever is
\* still in flight is abandoned.
ForceExit ==
    /\ exitTimer
    /\ ~processExited
    /\ processExited' = TRUE
    /\ exitCode' = 1
    /\ UNCHANGED <<poolVars, controller, ctrlCCount, exitTimer,
                   emergencyInstalled, emergencyCtrlCCount, scanVars,
                   chunkVars, busVars, pipeVars>>

----------------------------------------------------------------------------
\* processCourse (worker.ts): every exception of the pipeline is caught and
\* turned into a 'failed' CourseResult; the returned promise never rejects.

processCourse(coursePath, agentOutcome) ==
    [threw |-> FALSE,
     result |-> [coursePath |-> coursePath,
                 status |-> IF agentOutcome = "throws" THEN "failed" ELSE agentOutcome]]

----------------------------------------------------------------------------
\* Worker pool.

\* Faulty variant: skipped courses are queued as well.
pendingCoursesUnfiltered(cs) == cs

\* courses.filter((c) => c.state === 'pending')
pendingCourses(cs) == SelectSeq(cs, LAMBDA c : c.state = "pending")

\* courses.filter((c) => c.state === 'skipped').length
skippedCount(cs) == Len(SelectSeq(cs, LAMBDA c : c.state = "skipped"))

\* Faulty variant: every result is counted as completed.
CountResultAsCompleted(s, status) == [s EXCEPT !.completed = @ + 1]

\* Faulty variant: a unit that did not complete is not counted at all.
CountResultDropFailed(s, status) ==
    IF status = "complete" \/ status = "no_projects"
    THEN [s EXCEPT !.completed = @ + 1]
    ELSE s

\* if (status === 'complete' || status === 'no_projects') completed++ else failed++
CountResult(s, status) ==
    IF status = "complete" \/ status = "no_projects"
    THEN [s EXCEPT !.completed = @ + 1]
    ELSE [s EXCEPT !.failed = @ + 1]

\* Faulty variant: skipped courses are left out of the total.
InitialStatsPendingOnly(nPending, nSkipped) ==
    [total |-> nPending, completed |-> 0, failed |-> 0,
     skipped |-> nSkipped, remaining |-> nPending]

\* const stats: PoolStats = { total: pending + skipped, ..., remaining: pending }
InitialStats(nPending, nSkipped) ==
    [total |-> nPending + nSkipped, completed |-> 0, failed |-> 0,
     skipped |-> nSkipped, remaining |-> nPending]

\* Faulty variant: a result that arrives during shutdown is dropped.
RecordResultUnlessShutdown(rs, r) ==
    IF controller.isShuttingDown THEN rs ELSE Append(rs, r)

\* results.push(result)
RecordResult(rs, r) == Append(rs, r)

\* Faulty variant: remaining is never refreshed.
RefreshRemainingStale(s, q) == s

\* stats.remaining = queue.length
RefreshRemaining(s, q) == [s EXCEPT !.remaining = Len(q)]

\* Faulty variant: the worker publishes worker:idle and then waits instead of
\* leaving its loop, so its promise is never settled.
WorkerBreakWaits(p, w) ==
    [p EXCEPT !.workerPc[w] = "waiting", !.emitted = Append(@, EvWorkerIdle(w))]

\* Faulty variant: the worker leaves its loop without publishing worker:idle.
WorkerBreakSilent(p, w) == [p EXCEPT !.workerPc[w] = "exited"]

\* emit worker:idle; break
WorkerBreak(p, w) ==
    [p EXCEPT !.workerPc[w] = "exited", !.emitted = Append(@, EvWorkerIdle(w))]

\* Faulty variant: the course is read from the queue but left in it.
TakeNextKeep(p, w) ==
    LET course == Head(p.queue) IN
    [p EXCEPT !.activeWorkers = (w :> course.path) @@ @,
              !.workerPc[w] = "awaiting",
              !.emitted = @ \o <<EvWorkerStart(w, course.path), EvDiscoveryStart(w)>>]

\* queue.shift(); activeWorkers.set; emit worker:start, worker:discovery:start;
\* then the worker waits on processCourse.
TakeNext(p, w) ==
    LET course == Head(p.queue) IN
    [p EXCEPT !.queue = Tail(@),
              !.activeWorkers = (w :> course.path) @@ @,
              !.workerPc[w] = "awaiting",
              !.emitted = @ \o <<EvWorkerStart(w, course.path), EvDiscoveryStart(w)>>]

\* One pass of `while (true)` from its top to the await or the break.
WorkerLoop(p, w) ==
    IF ~shouldContinueProcessing(controller) /\ ~(w \in DOMAIN p.activeWorkers)
    THEN WorkerBreak(p, w)
    ELSE IF p.queue = <<>>
         THEN WorkerBreak(p, w)
         ELSE TakeNext(p, w)

RECURSIVE StartWorkers(_, _)
\* for (workerId = 0; workerId < concurrency; workerId++) workers.push((async () => ...)())
\* Each async body runs synchronously up to its first await.
StartWorkers(p, w) ==
    IF w >= concurrency THEN p ELSE StartWorkers(WorkerLoop(p, w), w + 1)

\* runWorkerPool from its call to `await Promise.all(workers)`, with the
\* events published before the call.
RunWorkerPoolAfter(published0) ==
    /\ poolPc = "notStarted"
    /\ ~processExited
    /\ LET pending == pendingCourses(courses)
           skipped == skippedCount(courses)
       IN IF Len(pending) = 0
          THEN /\ poolPc' = "returned"
               /\ emitted' = published0
               /\ UNCHANGED <<queue, results, activeWorkers, stats, workerPc>>
          ELSE LET stats0 == InitialStats(Len(pending), skipped)
                   p0 == [queue |-> pending,
                          activeWorkers |-> <<>>,
                          workerPc |-> [w \in Workers |-> "unborn"],
                          emitted |-> published0 \o <<EvPoolStart(concurrency),
                                                      EvStatsUpdate(stats0)>>]
                   p1 == StartWorkers(p0, 0)
               IN /\ poolPc' = "running"
                  /\ stats' = stats0
                  /\ results' = <<>>
                  /\ queue' = p1.queue
                  /\ activeWorkers' = p1.activeWorkers
                  /\ workerPc' = p1.workerPc
                  /\ emitted' = p1.emitted

RunWorkerPoolCall == RunWorkerPoolAfter(emitted)

RunWorkerPool ==
    /\ RunWorkerPoolCall
    /\ UNCHANGED <<courses, concurrency, shutdownVars, scanVars, chunkVars, busVars, pipeVars>>

\* Faulty variant: the entry is left in the map.
MapDeleteKeep(m, k) == m

\* Map.delete
MapDelete(m, k) == [x \in (DOMAIN m) \ {k} |-> m[x]]

\* What the pool holds at the moment a closing event of a unit is handed to
\* eventEmitter.emit: whether the unit's result is in `results`, and how many
\* units the counters have counted.
EmitSnapshot(s, w, coursePath) ==
    [workerId |-> w,
     coursePath |-> coursePath,
     recorded |-> \E k \in 1..Len(s.results) : s.results[k].coursePath = coursePath,
     counted |-> s.stats.completed + s.stats.failed,
     closing |-> Cardinality({k \in 1..Len(s.emitted) :
                     s.emitted[k].type \in {"worker:complete", "worker:error"}}) + 1]

\* Faulty variant: the event is emitted before the result is pushed and
\* counted.
tryBlockEmitFirst(s, w, result, q) ==
    LET s1 == [s EXCEPT !.atEmit = Append(@, EmitSnapshot(s, w, result.coursePath)),
                        !.emitted = Append(@, EvWorkerComplete(w, result))]
        s2 == [s1 EXCEPT !.results = RecordResult(@, result)]
        s3 == [s2 EXCEPT !.stats = RefreshRemaining(CountResult(@, result.status), q)]
    IN [s3 EXCEPT !.emitted = Append(@, EvStatsUpdate(s3.stats))]

\* The try block after `await processCourse(...)`: results.push(result); the
\* counters; stats.remaining; emit worker:complete; emit stats:update.
tryBlock(s, w, result, q) ==
    LET s1 == [s EXCEPT !.results = RecordResult(@, result)]
        s2 == [s1 EXCEPT !.stats = RefreshRemaining(CountResult(@, result.status), q)]
        s3 == [s2 EXCEPT !.atEmit = Append(@, EmitSnapshot(s2, w, result.coursePath)),
                         !.emitted = Append(@, EvWorkerComplete(w, result))]
    IN [s3 EXCEPT !.emitted = Append(@, EvStatsUpdate(s3.stats))]

\* The catch block: stats.failed++; stats.remaining; emit worker:error; emit
\* stats:update; results.push of a 'failed' result.
catchBlock(s, w, coursePath, q) ==
    LET s1 == [s EXCEPT !.stats = RefreshRemaining([@ EXCEPT !.failed = @ + 1], q)]
        s2 == [s1 EXCEPT !.atEmit = Append(@, EmitSnapshot(s1, w, coursePath)),
                         !.emitted = Append(@, EvWorkerError(w, coursePath))]
        s3 == [s2 EXCEPT !.emitted = Append(@, EvStatsUpdate(s2.stats))]
    IN [s3 EXCEPT !.results =
           RecordResult(@, [coursePath |-> coursePath, status |-> "failed"])]

\* A worker is resumed with the outcome of processCourse: the rest of the
\* try/catch, activeWorkers.delete, the shutdown check, and the next pass of
\* the loop up to its await or break.
WorkerResume(w, agentOutcome) ==
    /\ poolPc = "running"
    /\ ~processExited
    /\ w \in Workers
    /\ workerPc[w] = "awaiting"
    /\ LET coursePath == activeWorkers[w]
           outcome == processCourse(coursePath, agentOutcome)
           s0 == [results |-> results, stats |-> stats, emitted |-> emitted,
                  atEmit |-> atEmit]
           s1 == IF outcome.threw
                 THEN catchBlock(s0, w, coursePath, queue)
                 ELSE tryBlock(s0, w, outcome.result, queue)
           p1 == [queue |-> queue,
                  activeWorkers |-> MapDelete(activeWorkers, w),
                  workerPc |-> workerPc,
                  emitted |-> s1.emitted]
           p2 == IF ~shouldContinueProcessing(controller)
                 THEN WorkerBreak(p1, w)
                 ELSE WorkerLoop(p1, w)
       IN /\ results' = s1.results
          /\ stats' = s1.stats
          /\ atEmit' = s1.atEmit
          /\ queue' = p2.queue
          /\ activeWorkers' = p2.activeWorkers
          /\ workerPc' = p2.workerPc
          /\ emitted' = p2.emitted
    /\ UNCHANGED <<courses, concurrency, poolPc, shutdownVars, scanVars, chunkVars,
                   busVars, largeVars, agentVars, errorLog, tuiVars, mainVars>>

\* await Promise.all(workers) is satisfied; emit pool:complete; return results.
PoolReturnCall ==
    /\ poolPc = "running"
    /\ ~processExited
    /\ \A w \in Workers : workerPc[w] = "exited"
    /\ poolPc' = "returned"
    /\ emitted' = Append(emitted, EvPoolComplete(stats))
    /\ UNCHANGED <<queue, results, activeWorkers, stats, workerPc>>

PoolReturn ==
    /\ PoolReturnCall
    /\ UNCHANGED <<courses, concurrency, shutdownVars, scanVars, chunkVars, busVars, pipeVars>>

----------------------------------------------------------------------------
\* Specification of the pool.

NoDisk == [marker |-> "absent", hasProjects |-> FALSE, hasManifest |-> FALSE]

InitShutdown ==
    /\ controller = [isShuttingDown |-> FALSE, forceExit |-> FALSE]
    /\ ctrlCCount = 0
    /\ exitTimer = FALSE
    /\ processExited = FALSE
    /\ exitCode = -1
    /\ emergencyCtrlCCount = 0

InitPoolLocals ==
    /\ poolPc = "notStarted"
    /\ queue = <<>>
    /\ results = <<>>
    /\ activeWorkers = <<>>
    /\ stats = [total |-> 0, completed |-> 0, failed |-> 0, skipped |-> 0, remaining |-> 0]
    /\ workerPc = [w \in Workers |-> "unborn"]
    /\ emitted = <<>>

InitNoScan ==
    /\ disk = NoDisk
    /\ disk0 = NoDisk
    /\ scanned = "none"
    /\ scans = 0
    /\ pipeline = "none"

InitNoChunks ==
    /\ srts = <<>>
    /\ chunks = <<>>
    /\ chunkPc = "notCalled"

\* No call of the listener's unsubscribe function so far.
NotUnsubscribed == [called |-> FALSE, first |-> 0, again |-> FALSE]

InitNoBus ==
    /\ listeners = <<>>
    /\ throwing = {}
    /\ calls = <<>>
    /\ published = <<>>
    /\ returns = <<>>
    /\ firstOn = [l \in Listeners |-> -1]
    /\ subOrder = <<>>
    /\ unsubscribed = [l \in Listeners |-> NotUnsubscribed]

InitNoTui ==
    /\ tuiPc = "notLaunched"
    /\ synthPc = "notCalled"

InitNoLarge ==
    /\ largePc = "notCalled"
    /\ chunkNo = 0
    /\ allFilesCreated = <<>>
    /\ allErrors = <<>>
    /\ largeResult = "none"
    /\ chunkCalls = <<>>

InitNoAgent ==
    /\ agent = <<>>
    /\ manifestFile = <<>>
    /\ discoveryCalls = <<>>
    /\ agentResult = <<>>

\* main() has called runSynthesizer, which has reached runWorkerPool.
InitInSynthesizer ==
    /\ mainPc = "synthesizer"
    /\ args = [command |-> "run", input |-> TRUE, inputExists |-> TRUE,
               inputReadable |-> TRUE]
    /\ runs = 1

InitNoPipe ==
    /\ InitNoLarge
    /\ InitNoAgent
    /\ errorLog = <<>>
    /\ atEmit = <<>>
    /\ InitNoTui
    /\ InitInSynthesizer

Init ==
    /\ courses \in CourseLists
    /\ concurrency \in 1..MaxConcurrency
    /\ InitPoolLocals
    /\ InitShutdown
    /\ emergencyInstalled \in BOOLEAN
    /\ InitNoPipe
    /\ InitNoScan
    /\ InitNoChunks
    /\ InitNoBus

Next ==
    \/ RunWorkerPool
    \/ \E w \in Workers, o \in AgentOutcomes : WorkerResume(w, o)
    \/ PoolReturn
    \/ Signal
    \/ ForceExit

Spec == Init /\ [][Next]_vars

\* The run under the scheduling of the event loop: the call of runWorkerPool
\* is carried out, every processCourse promise is settled and its worker
\* resumed, and the continuation of Promise.all runs once it is enabled.
\* Signals and the exit timer may or may not come.
SpecLive ==
    /\ Init
    /\ [][Next]_vars
    /\ WF_vars(RunWorkerPool)
    /\ \A w \in 0..(MaxConcurrency - 1) :
          WF_vars(\E o \in AgentOutcomes : WorkerResume(w, o))
    /\ WF_vars(PoolReturn)

\* The scenario of five pending courses processed by two workers.
InitScenario ==
    /\ courses = [i \in 1..5 |-> [path |-> i, state |-> "pending"]]
    /\ concurrency = 2
    /\ InitPoolLocals
    /\ InitShutdown
    /\ emergencyInstalled = FALSE
    /\ InitNoPipe
    /\ InitNoScan
    /\ InitNoChunks
    /\ InitNoBus

SpecScenario == InitScenario /\ [][Next]_vars

----------------------------------------------------------------------------
\* Course state detection (state-detector).  The course directory is
\* described by what the detector and the pipeline look at: progress.json
\* (absent, unparseable, or its status), CODE/__CC_Projects, and
\* project-findings.json.  "other" stands for any status string that is
\* neither started, complete nor completed.

Markers == {"absent", "corrupt", "started", "complete", "completed", "other"}

Disks == [marker : Markers, hasProjects : BOOLEAN, hasManifest : BOOLEAN]

\* readJsonFile: null when the file cannot be read or parsed.
readProgressFile(d) ==
    IF d.marker = "absent" \/ d.marker = "corrupt" THEN "null" ELSE d.marker

\* Faulty variant: the manifest in the course root is removed as well.
deleteDirectoryWithManifest(d) ==
    IF d.hasProjects THEN [d EXCEPT !.hasProjects = FALSE, !.hasManifest = FALSE] ELSE d

\* if (existsSync(path)) rmSync(path, { recursive: true, force: true })
deleteDirectory(d) ==
    IF d.hasProjects THEN [d EXCEPT !.hasProjects = FALSE] ELSE d

\* Faulty variant: the partial output is left behind.
cleanupIncompleteCourseNoop(d) == d

\* if (existsSync(ccProjectsPath)) deleteDirectory(ccProjectsPath)
cleanupIncompleteCourse(d) ==
    IF d.hasProjects THEN deleteDirectory(d) ELSE d

\* Faulty variant: only 'complete' is accepted as a finished marker.
detectCourseStateCompleteOnly(d) ==
    LET hasProjects == d.hasProjects IN
    IF d.marker # "absent"
    THEN LET progress == readProgressFile(d) IN
         IF progress # "null"
         THEN IF progress = "complete"
              THEN IF hasProjects
                   THEN [state |-> "skipped", disk |-> d]
                   ELSE [state |-> "pending", disk |-> d]
              ELSE [state |-> "pending", disk |-> cleanupIncompleteCourse(d)]
         ELSE [state |-> "pending", disk |-> cleanupIncompleteCourse(d)]
    ELSE IF hasProjects
         THEN [state |-> "skipped", disk |-> d]
         ELSE [state |-> "pending", disk |-> d]

\* Faulty variant: a finished marker is trusted without looking at the output,
\* and a course taken for unfinished is cleaned up, manifest included.
detectCourseStateTrustMarker(d) ==
    LET hasProjects == d.hasProjects IN
    IF d.marker # "absent"
    THEN LET progress == readProgressFile(d) IN
         IF progress # "null"
         THEN IF progress = "complete" \/ progress = "completed"
              THEN IF hasProjects
                   THEN [state |-> "skipped", disk |-> d]
                   ELSE [state |-> "pending",
                         disk |-> [cleanupIncompleteCourse(d) EXCEPT !.hasManifest = FALSE]]
              ELSE [state |-> "pending", disk |-> cleanupIncompleteCourse(d)]
         ELSE [state |-> "pending", disk |-> cleanupIncompleteCourse(d)]
    ELSE IF hasProjects
         THEN [state |-> "skipped", disk |-> d]
         ELSE [state |-> "pending", disk |-> d]

\* Faulty variant: without a marker the course is always taken for
\* unfinished, and what it holds is cleaned up.
detectCourseStateNoMarkerPending(d) ==
    LET hasProjects == d.hasProjects IN
    IF d.marker # "absent"
    THEN LET progress == readProgressFile(d) IN
         IF progress # "null"
         THEN IF progress = "complete" \/ progress = "completed"
              THEN IF hasProjects
                   THEN [state |-> "skipped", disk |-> d]
                   ELSE [state |-> "pending", disk |-> d]
              ELSE [state |-> "pending", disk |-> cleanupIncompleteCourse(d)]
         ELSE [state |-> "pending", disk |-> cleanupIncompleteCourse(d)]
    ELSE [state |-> "pending", disk |-> cleanupIncompleteCourse(d)]

\* detectCourseState: the state it returns and the directory it leaves.
detectCourseState(d) ==
    LET hasProjects == d.hasProjects IN
    IF d.marker # "absent"
    THEN LET progress == readProgressFile(d) IN
         IF progress # "null"
         THEN IF progress = "complete" \/ progress = "completed"
              THEN IF hasProjects
                   THEN [state |-> "skipped", disk |-> d]
                   ELSE [state |-> "pending", disk |-> d]
              ELSE [state |-> "pending", disk |-> cleanupIncompleteCourse(d)]
         ELSE [state |-> "pending", disk |-> cleanupIncompleteCourse(d)]
    ELSE IF hasProjects
         THEN [state |-> "skipped", disk |-> d]
         ELSE [state |-> "pending", disk |-> d]

\* buildCourse: classify the course directory (a scan, or a re-scan by a
\* later run of the program).
BuildCourse ==
    /\ scans < MaxScans
    /\ LET r == detectCourseState(disk) IN
       /\ scanned' = r.state
       /\ disk' = r.disk
    /\ scans' = scans + 1
    /\ UNCHANGED <<poolVars, shutdownVars, chunkVars, busVars, pipeVars, disk0, pipeline>>

\* runCourseAgent, phase 1, for a course queued as pending: an existing
\* project-findings.json is loaded instead of calling the collaborator;
\* otherwise the discovery call is made, and it may or may not leave a
\* manifest on disk.
RunCourseAgentDiscovery ==
    /\ scanned = "pending"
    /\ pipeline = "none"
    /\ IF disk.hasManifest
       THEN /\ pipeline' = "manifestLoaded"
            /\ UNCHANGED disk
       ELSE /\ pipeline' = "discoveryCalled"
            /\ \E written \in BOOLEAN : disk' = [disk EXCEPT !.hasManifest = written]
    /\ UNCHANGED <<poolVars, shutdownVars, chunkVars, busVars, pipeVars, disk0, scanned, scans>>

InitScan ==
    /\ courses = <<>>
    /\ concurrency = 1
    /\ InitPoolLocals
    /\ InitShutdown
    /\ emergencyInstalled = FALSE
    /\ InitNoPipe
    /\ disk \in Disks
    /\ disk0 = disk
    /\ scanned = "none"
    /\ scans = 0
    /\ pipeline = "none"
    /\ InitNoChunks
    /\ InitNoBus

NextScan ==
    \/ BuildCourse
    \/ RunCourseAgentDiscovery

SpecScan == InitScan /\ [][NextScan]_vars

----------------------------------------------------------------------------
\* Chunk planning for large projects (createSrtChunks).  An SrtFile is
\* identified by its filename; the files of a course are numbered in
\* directory order.

CHUNK_SIZE == 10
CHUNK_OVERLAP == 2

SrtFile(k) == [filename |-> k]

\* relevantSrts: the files of the course that belong to the project, in
\* course order.  Either n consecutive files, or n of n + 1 files with the
\* k-th one belonging to no project.
SrtLists ==
    {[i \in 1..n |-> SrtFile(IF k = 0 \/ i < k THEN i ELSE i + 1)] :
        n \in 0..MaxSrts, k \in 0..MaxSrts}

Min(a, b) == IF a < b THEN a ELSE b
Max(a, b) == IF a > b THEN a ELSE b

\* Array.prototype.slice(from, to) with 0 <= from <= to.
slice(s, from, to) == SubSeq(s, from + 1, Min(to, Len(s)))

\* Array.prototype.includes
includes(s, x) == \E j \in 1..Len(s) : s[j] = x

\* .map((s) => s.filename)
filenames(s) == [j \in 1..Len(s) |-> s[j].filename]

\* Faulty variant: an undersized tail is dropped.
mergeTailDropped(last, chunkSrts) == last

\* Faulty variant: the tail is pushed whole, shared files included.
mergeTailUnfiltered(last, chunkSrts) ==
    [last EXCEPT !.srts = @ \o chunkSrts]

\* chunks[chunks.length - 1].srts.push(...chunkSrts.filter(not yet included))
mergeTail(last, chunkSrts) ==
    [last EXCEPT !.srts =
        @ \o SelectSeq(chunkSrts, LAMBDA x : ~includes(last.srts, x))]

\* Faulty variant: the window advances by a whole window.
nextStartNoOverlap(i) == i + CHUNK_SIZE

\* i += CHUNK_SIZE - CHUNK_OVERLAP
nextStart(i) == i + CHUNK_SIZE - CHUNK_OVERLAP

\* overlapFiles: the filenames of srts.slice(max(0, i - CHUNK_OVERLAP), i)
overlapFiles(s, i) ==
    IF i > 0 THEN filenames(slice(s, Max(0, i - CHUNK_OVERLAP), i)) ELSE <<>>

\* Math.ceil(srts.length / CHUNK_SIZE)
totalChunks(s) == (Len(s) + CHUNK_SIZE - 1) \div CHUNK_SIZE

\* The for loop from start index i with the chunks pushed so far.
RECURSIVE chunkLoop(_, _, _)

chunkLoop(s, i, cs) ==
    IF ~(i < Len(s))
    THEN cs
    ELSE LET chunkSrts == slice(s, i, i + CHUNK_SIZE) IN
         IF 2 * Len(chunkSrts) < CHUNK_SIZE /\ Len(cs) > 0
         THEN [cs EXCEPT ![Len(cs)] = mergeTail(@, chunkSrts)]
         ELSE chunkLoop(s, nextStart(i),
                        Append(cs, [index |-> Len(cs),
                                    total |-> totalChunks(s),
                                    srts |-> chunkSrts,
                                    overlap_from_previous |-> overlapFiles(s, i)]))

\* Faulty variant: total stays the estimate made before the loop.
fixTotalsKeep(cs) == cs

\* chunks.forEach((chunk) => { chunk.total = chunks.length })
fixTotals(cs) == [k \in 1..Len(cs) |-> [cs[k] EXCEPT !.total = Len(cs)]]

createSrtChunks(s) == fixTotals(chunkLoop(s, 0, <<>>))

\* const chunks = createSrtChunks(relevantSrts)
CreateSrtChunks ==
    /\ chunkPc = "notCalled"
    /\ chunks' = createSrtChunks(srts)
    /\ chunkPc' = "returned"
    /\ UNCHANGED <<poolVars, shutdownVars, scanVars, busVars, pipeVars, srts>>

InitChunks ==
    /\ courses = <<>>
    /\ concurrency = 1
    /\ InitPoolLocals
    /\ InitShutdown
    /\ emergencyInstalled = FALSE
    /\ InitNoPipe
    /\ InitNoScan
    /\ InitNoBus
    /\ srts \in SrtLists
    /\ chunks = <<>>
    /\ chunkPc = "notCalled"

NextChunks == CreateSrtChunks

SpecChunks == InitChunks /\ [][NextChunks]_vars

----------------------------------------------------------------------------
\* Event bus (SynthEventEmitter).  listeners is a Set, which iterates in
\* insertion order.  Events are numbered in publication order.  A callback
\* of the program neither subscribes, unsubscribes nor emits while it is
\* being called, so emit runs to completion as one step.

\* Faulty variant: the newest listener is put first.
setAddFront(ls, l) == IF includes(ls, l) THEN ls ELSE <<l>> \o ls

\* Set.prototype.add
setAdd(ls, l) == IF includes(ls, l) THEN ls ELSE Append(ls, l)

\* The unsubscribe function is called when n events have been published.
unsubscribeCalled(u, n) ==
    IF u.called THEN [u EXCEPT !.again = TRUE]
    ELSE [called |-> TRUE, first |-> n, again |-> FALSE]

\* Faulty variant: nothing is removed.
setDeleteKeep(ls, l) == ls

\* Set.prototype.delete
setDelete(ls, l) == SelectSeq(ls, LAMBDA x : x # l)

Call(l, e) == [listener |-> l, event |-> e]

\* Faulty variant: the events published so far are replayed to the listener.
onReplaying(ls, cs, l, n) ==
    [listeners |-> setAdd(ls, l),
     calls |-> cs \o [e \in 1..n |-> Call(l, e)]]

\* on(listener), when n events have been published: the listener is added
\* and nothing is delivered.
on(ls, cs, l, n) == [listeners |-> setAdd(ls, l), calls |-> cs]

\* The position of the first listener of ls that throws, Len(ls) + 1 if none.
RECURSIVE firstThrower(_, _)

firstThrower(ls, j) ==
    IF j > Len(ls) \/ ls[j] \in throwing THEN j ELSE firstThrower(ls, j + 1)

\* Faulty variant: no try/catch around the call; the first exception ends
\* the loop and leaves emit.
emitUncaught(ls, e) ==
    LET t == firstThrower(ls, 1) IN
    [calls |-> [j \in 1..Min(t, Len(ls)) |-> Call(ls[j], e)],
     returned |-> IF t > Len(ls) THEN "normal" ELSE "threw"]

\* emit(event): for (const listener of this.listeners) try { listener(event) }
\* catch { console.error }.  The calls made, and how emit ends.
emit(ls, e) ==
    [calls |-> [j \in 1..Len(ls) |-> Call(ls[j], e)],
     returned |-> "normal"]

\* eventEmitter.on(callback): every callback of the program is a closure
\* created at its one subscription, so it is passed to on() once.
On(l) ==
    /\ firstOn[l] = -1
    /\ LET r == on(listeners, calls, l, Len(published)) IN
       /\ listeners' = r.listeners
       /\ calls' = r.calls
    /\ firstOn' = [firstOn EXCEPT ![l] = Len(published)]
    /\ subOrder' = Append(subOrder, l)
    /\ UNCHANGED <<poolVars, shutdownVars, scanVars, chunkVars, pipeVars, throwing,
                   published, returns, unsubscribed>>

\* The function returned by on(listener): this.listeners.delete(listener)
Unsubscribe(l) ==
    /\ firstOn[l] # -1
    /\ unsubscribed' = [unsubscribed EXCEPT ![l] = unsubscribeCalled(@, Len(published))]
    /\ listeners' = setDelete(listeners, l)
    /\ subOrder' = SelectSeq(subOrder, LAMBDA x : x # l)
    /\ UNCHANGED <<poolVars, shutdownVars, scanVars, chunkVars, pipeVars, throwing,
                   calls, published, returns, firstOn>>

\* clear(): this.listeners.clear()
Clear ==
    /\ listeners' = <<>>
    /\ subOrder' = <<>>
    /\ UNCHANGED <<poolVars, shutdownVars, scanVars, chunkVars, pipeVars, throwing,
                   calls, published, returns, firstOn, unsubscribed>>

Emit ==
    /\ Len(published) < MaxEvents
    /\ LET r == emit(listeners, Len(published) + 1) IN
       /\ calls' = calls \o r.calls
       /\ returns' = Append(returns, r.returned)
    /\ published' = Append(published, subOrder)
    /\ UNCHANGED <<poolVars, shutdownVars, scanVars, chunkVars, pipeVars, listeners,
                   throwing, firstOn, subOrder, unsubscribed>>

InitBus ==
    /\ courses = <<>>
    /\ concurrency = 1
    /\ InitPoolLocals
    /\ InitShutdown
    /\ emergencyInstalled = FALSE
    /\ InitNoPipe
    /\ InitNoScan
    /\ InitNoChunks
    /\ listeners = <<>>
    /\ throwing \in SUBSET Listeners
    /\ calls = <<>>
    /\ published = <<>>
    /\ returns = <<>>
    /\ firstOn = [l \in Listeners |-> -1]
    /\ subOrder = <<>>
    /\ unsubscribed = [l \in Listeners |-> NotUnsubscribed]

NextBus ==
    \/ \E l \in Listeners : On(l)
    \/ \E l \in Listeners : Unsubscribe(l)
    \/ Clear
    \/ Emit

SpecBus == InitBus /\ [][NextBus]_vars

----------------------------------------------------------------------------
\* Chunked generation of a large project (runLargeProjectGeneration).  The
\* input srts stands for relevantSrts, the transcripts of the project.

LARGE_PROJECT_THRESHOLD == 15

\* What is at architecture-<project>.json when the function is called.
ArchitectureFiles == {"absent", "valid", "invalid"}

\* What runChunkedGenerator can hand back for one chunk: a GeneratedProject
\* (the lengths of its files_created and errors), or an exception of
\* buildChunkedGeneratorPrompt.
ChunkOutcomes ==
    {[threw |-> TRUE, files |-> 0, errors |-> 0]} \cup
    {[threw |-> FALSE, files |-> f, errors |-> e] : f \in 0..1, e \in 0..1}

\* Faulty variant: errors are ignored once a file exists.
largeProjectStatusIgnoringErrors(files, errors) ==
    IF Len(files) > 0 THEN "success" ELSE "failed"

\* allFilesCreated.length > 0 ? (allErrors.length > 0 ? 'partial' : 'success') : 'failed'
largeProjectStatus(files, errors) ==
    IF Len(files) > 0
    THEN IF Len(errors) > 0 THEN "partial" ELSE "success"
    ELSE "failed"

\* Faulty variant: the files generated so far are not handed to the call.
chunkCallWithoutFiles(k, files) ==
    [chunk |-> k, previouslyGeneratedFiles |-> <<>>, returned |-> FALSE,
     threw |-> FALSE, files |-> 0, errors |-> 0]

\* runChunkedGenerator(course, project, architectureSpec, chunk, allFilesCreated)
\* is called for chunk k: the prompt is built from the list as it is now.
chunkCall(k, files) ==
    [chunk |-> k, previouslyGeneratedFiles |-> files, returned |-> FALSE,
     threw |-> FALSE, files |-> 0, errors |-> 0]

\* The call has returned `out` (or thrown).
chunkReturn(call, out) ==
    [call EXCEPT !.returned = TRUE, !.threw = out.threw,
                 !.files = out.files, !.errors = out.errors]

\* The early returns: the architecture spec could not be loaded or produced.
\* files_created: [], status: 'failed', errors: [one message]
LargeReturnFailed ==
    /\ largePc' = "returned"
    /\ largeResult' = [status |-> "failed", files_created |-> <<>>, errors |-> <<0>>]
    /\ UNCHANGED <<chunkNo, allFilesCreated, allErrors, chunkCalls, chunkVars>>

\* return { files_created: allFilesCreated, status, errors: allErrors }
LargeReturn(files, errors) ==
    /\ largePc' = "returned"
    /\ largeResult' = [status |-> largeProjectStatus(files, errors),
                       files_created |-> files, errors |-> errors]
    /\ allFilesCreated' = files
    /\ allErrors' = errors

\* createSrtChunks(relevantSrts), the two empty accumulators, and the loop up
\* to its first await; with no chunk the function returns at once.
EnterChunkLoop ==
    LET cs == createSrtChunks(srts) IN
    /\ chunks' = cs
    /\ chunkPc' = "returned"
    /\ UNCHANGED srts
    /\ IF cs = <<>>
       THEN LargeReturn(<<>>, <<>>) /\ UNCHANGED <<chunkNo, chunkCalls>>
       ELSE /\ largePc' = "chunk"
            /\ chunkNo' = 1
            /\ allFilesCreated' = <<>>
            /\ allErrors' = <<>>
            /\ chunkCalls' = <<chunkCall(1, <<>>)>>
            /\ UNCHANGED largeResult

\* runLargeProjectGeneration from its call to its first await or return.
RunLargeProjectGeneration(architectureFile) ==
    /\ largePc = "notCalled"
    /\ CASE architectureFile = "invalid" -> LargeReturnFailed
         [] architectureFile = "valid" -> EnterChunkLoop
         [] OTHER -> /\ largePc' = "architect"
                     /\ UNCHANGED <<chunkNo, allFilesCreated, allErrors,
                                    largeResult, chunkCalls, chunkVars>>
    /\ UNCHANGED <<poolVars, shutdownVars, scanVars, busVars, agentVars,
                   errorLog, atEmit, tuiVars, mainVars>>

\* await runArchitectAgent(...) returns, with or without a spec.
ArchitectReturns(success) ==
    /\ largePc = "architect"
    /\ IF success THEN EnterChunkLoop ELSE LargeReturnFailed
    /\ UNCHANGED <<poolVars, shutdownVars, scanVars, busVars, agentVars,
                   errorLog, atEmit, tuiVars, mainVars>>

\* await runChunkedGenerator(...) returns or throws for the current chunk:
\* the rest of the loop body, then the next chunk or the return.  A file or
\* an error message is written here as the number of the chunk it came from.
ChunkReturns(out) ==
    /\ largePc = "chunk"
    /\ LET files == IF ~out.threw /\ out.files > 0
                    THEN Append(allFilesCreated, chunkNo) ELSE allFilesCreated
           errors == IF out.threw \/ out.errors > 0
                     THEN Append(allErrors, chunkNo) ELSE allErrors
           made == [chunkCalls EXCEPT ![chunkNo] = chunkReturn(@, out)]
       IN IF chunkNo = Len(chunks)
          THEN LargeReturn(files, errors) /\ chunkCalls' = made /\ UNCHANGED chunkNo
          ELSE /\ chunkNo' = chunkNo + 1
               /\ allFilesCreated' = files
               /\ allErrors' = errors
               /\ chunkCalls' = Append(made, chunkCall(chunkNo + 1, files))
               /\ UNCHANGED <<largePc, largeResult>>
    /\ UNCHANGED <<poolVars, shutdownVars, scanVars, busVars, agentVars,
                   errorLog, atEmit, tuiVars, mainVars, chunkVars>>

InitLarge == InitChunks

NextLarge ==
    \/ \E a \in ArchitectureFiles : RunLargeProjectGeneration(a)
    \/ \E ok \in BOOLEAN : ArchitectReturns(ok)
    \/ \E out \in ChunkOutcomes : ChunkReturns(out)

SpecLarge == InitLarge /\ [][NextLarge]_vars

----------------------------------------------------------------------------
\* The pipeline of one course (processCourse, runCourseAgent) inside the pool.

EvDiscoveryComplete(w, n) ==
    [type |-> "worker:discovery:complete", workerId |-> w, projectCount |-> n]
EvGenerationStart(w, n) ==
    [type |-> "worker:generation:start", workerId |-> w, total |-> n]
EvGenerationProgress(w, k, n) ==
    [type |-> "worker:generation:progress", workerId |-> w, current |-> k, total |-> n]
EvGitHubStart(w) == [type |-> "worker:github:start", workerId |-> w]
EvGitHub(w, outcome) == [type |-> "worker:github:" \o outcome, workerId |-> w]

\* The projects lists a manifest can hold: a project is written as the
\* length of its source_srts; the first one is a large project.
ProjectLists ==
    {[i \in 1..n |-> IF i = 1 THEN LARGE_PROJECT_THRESHOLD + 1 ELSE 1] : n \in 0..MaxProjects}

\* project-findings.json of a course: absent, unparseable, or a manifest.
ManifestFiles ==
    {[kind |-> "absent", projects |-> <<>>], [kind |-> "corrupt", projects |-> <<>>]}
    \cup {[kind |-> "valid", projects |-> ps] : ps \in ProjectLists}

\* The final result text of a collaborator call: none (the call failed or
\* gave an empty result), text without a manifest, or text with one.
ResultTexts ==
    {[kind |-> "none", projects |-> <<>>], [kind |-> "nojson", projects |-> <<>>]}
    \cup {[kind |-> "json", projects |-> ps] : ps \in ProjectLists}

\* What a discovery call leaves behind: its result text and the manifest
\* file (the collaborator writes files in the course directory).  The cases
\* kept: the call fails; it answers without a manifest; it answers with the
\* manifest in its text; it writes the manifest file.
DiscoveryOutcomes ==
    {o \in [text : ResultTexts, file : ManifestFiles] :
        /\ o.file.kind # "corrupt"
        /\ o.text.kind = "none" => o.file.kind = "absent"
        /\ o.text.kind = "json" => o.file.kind = "absent"}

\* What generating one project gives: a GeneratedProject (status, whether
\* output_path is set) or an exception.  A project above the threshold goes
\* through runLargeProjectGeneration, which derives the status.  The cases
\* kept: the project folder exists for 'success' and is missing otherwise.
GenerationOutcomes(isLarge) ==
    {[threw |-> TRUE, status |-> "failed", hasPath |-> FALSE]} \cup
    {[threw |-> FALSE, status |-> s, hasPath |-> (s = "success")] :
        s \in IF isLarge
              THEN {largeProjectStatus(f, e) : f \in {<<>>, <<1>>}, e \in {<<>>, <<1>>}}
              ELSE {"success", "partial", "failed"}}

GitHubOutcomes == {"skipped", "failed", "complete"}

NullManifest == [isNull |-> TRUE, projects |-> <<>>]

\* readJsonFile: null when the file cannot be parsed.
readJsonFile(file) ==
    IF file.kind = "valid" THEN [isNull |-> FALSE, projects |-> file.projects]
    ELSE NullManifest

\* extractManifestJson: the manifest found in the text, or null.
extractManifestJson(text) ==
    IF text.kind = "json" THEN [isNull |-> FALSE, projects |-> text.projects]
    ELSE NullManifest

NoProjectsResult == [has_projects |-> FALSE, project_count |-> 0, manifest |-> NullManifest]

\* parseDiscoveryResult(resultText, coursePath): the file first, the text as
\* the fallback; normalizeManifest marks every project 'not_started'.
parseDiscoveryResult(text, file) ==
    LET fromFile == IF file.kind # "absent" THEN readJsonFile(file) ELSE NullManifest
        manifest == IF fromFile.isNull THEN extractManifestJson(text) ELSE fromFile
    IN IF manifest.isNull
       THEN NoProjectsResult
       ELSE [has_projects |-> Len(manifest.projects) > 0,
             project_count |-> Len(manifest.projects),
             manifest |-> manifest]

\* What runDiscoveryAgent returns once the collaborator is done.
runDiscoveryAgent(out) ==
    IF out.text.kind # "none" THEN parseDiscoveryResult(out.text, out.file)
    ELSE NoProjectsResult

\* Faulty variant: only a manifest that parses counts as existing.
manifestExistsIfValid(file) == file.kind = "valid"

\* existsSync(existingManifestPath)
manifestExists(file) == file.kind # "absent"

\* Faulty variant: one failed project fails the course.
courseStatusAnyFailed(projectsGenerated) ==
    IF \E i \in 1..Len(projectsGenerated) : projectsGenerated[i] = "failed"
    THEN "failed" ELSE "complete"

\* allFailed = projectsGenerated.every(p => p.status === 'failed');
\* status: allFailed ? 'failed' : 'complete'
courseStatus(projectsGenerated) ==
    IF \A i \in 1..Len(projectsGenerated) : projectsGenerated[i] = "failed"
    THEN "failed" ELSE "complete"

\* An AgentResult is written as its status, discovery.project_count, the
\* statuses of projectsGenerated and errors.length.
NoAgentResult ==
    [status |-> "none", project_count |-> 0, manifestNull |-> FALSE,
     projectsGenerated |-> <<>>, errors |-> 0]

\* The projects of the courses other than c that the run has met so far.
RECURSIVE ProjectsElsewhere(_, _)
ProjectsElsewhere(c, n) ==
    IF n = 0 THEN 0
    ELSE ProjectsElsewhere(c, n - 1) +
         (IF n = c THEN 0
          ELSE Max(Len(manifestFile[n].projects),
                   Max(Len(agentResult[n].projectsGenerated),
                       IF \E w \in DOMAIN agent : agent[w].course = n
                       THEN Len(agent[CHOOSE w \in DOMAIN agent : agent[w].course = n].projects)
                       ELSE 0)))

IdleAgent ==
    [pc |-> "idle", course |-> 0, manifestExisted |-> FALSE, callsBefore |-> 0,
     projects |-> <<>>, projectsGenerated |-> <<>>, errors |-> 0,
     result |-> "none", outcome |-> "none"]

\* runCourseAgent returns r: the promise of processCourse is resolved and the
\* worker that awaits it will be resumed.
AgentReturn(p, w, r) ==
    [p EXCEPT !.agent[w].pc = "resolved",
              !.agent[w].outcome = r.status,
              !.agentResult[p.agent[w].course] = r]

\* Faulty variant: the progress event counts from 0.
progressEventFromZero(w, completedCount, total) ==
    EvGenerationProgress(w, completedCount - 1, total)

\* emit worker:generation:progress { current: completedCount, total }
progressEvent(w, completedCount, total) ==
    EvGenerationProgress(w, completedCount, total)

\* The rest of the loop body once the project's entry (its status) is known:
\* push it, count it, emit the progress event; then the next project up to
\* its await, or the return after the loop.
AfterProject(p, w, status, threw) ==
    LET a == p.agent[w]
        generated == Append(a.projectsGenerated, status)
        errors == IF threw THEN a.errors + 1 ELSE a.errors
        total == Len(a.projects)
        p1 == [p EXCEPT !.agent[w].projectsGenerated = generated,
                        !.agent[w].errors = errors,
                        !.agent[w].result = "none",
                        !.emitted = Append(@, progressEvent(w, Len(generated), total))]
    IN IF Len(generated) = total
       THEN AgentReturn(p1, w, [status |-> courseStatus(generated),
                                project_count |-> total,
                                manifestNull |-> FALSE,
                                projectsGenerated |-> generated,
                                errors |-> errors])
       ELSE [p1 EXCEPT !.agent[w].pc = "generating"]

\* Faulty variant: generation is announced before discovery is reported.
discoveryEventsSwapped(w, dr) ==
    <<EvGenerationStart(w, Len(dr.manifest.projects)),
      EvDiscoveryComplete(w, dr.project_count)>>

\* emit worker:discovery:complete; for a manifest with projects, emit
\* worker:generation:start with the number of projects to generate.
discoveryEvents(w, dr) ==
    IF ~dr.has_projects \/ dr.manifest.isNull
    THEN <<EvDiscoveryComplete(w, dr.project_count)>>
    ELSE <<EvDiscoveryComplete(w, dr.project_count),
           EvGenerationStart(w, Len(dr.manifest.projects))>>

\* Faulty variant: the 'no_projects' result never carries an error.
noProjectsErrorsNone(dr) == 0

\* errors: discoveryResult.manifest ? [] : ['Discovery failed to produce manifest']
noProjectsErrors(dr) == IF dr.manifest.isNull THEN 1 ELSE 0

\* runCourseAgent from the discovery result to the await on the first
\* project's generator, or to the 'no_projects' return.
AfterDiscovery(p, w, dr) ==
    LET p1 == [p EXCEPT !.emitted = @ \o discoveryEvents(w, dr)] IN
    IF ~dr.has_projects \/ dr.manifest.isNull
    THEN AgentReturn(p1, w, [status |-> "no_projects",
                             project_count |-> dr.project_count,
                             manifestNull |-> dr.manifest.isNull,
                             projectsGenerated |-> <<>>,
                             errors |-> noProjectsErrors(dr)])
    ELSE [p1 EXCEPT !.agent[w].pc = "generating",
                    !.agent[w].projects = dr.manifest.projects]

\* processCourse called by worker w for the course it has just taken:
\* loadAllSrtContents, then runCourseAgent up to its first await or return.
\* An exception of loadAllSrtContents is caught by processCourse.
processCourseStart(p, w, loadThrows) ==
    LET c == p.activeWorkers[w]
        file == p.manifestFile[c]
        p1 == [p EXCEPT !.agent[w] =
                   [IdleAgent EXCEPT !.course = c,
                                     !.manifestExisted = manifestExists(file),
                                     !.callsBefore = p.discoveryCalls[c]]]
    IN IF loadThrows
       THEN [p1 EXCEPT !.agent[w].pc = "resolved", !.agent[w].outcome = "throws"]
       ELSE IF manifestExists(file)
            THEN AfterDiscovery(p1, w,
                     parseDiscoveryResult([kind |-> "nojson", projects |-> <<>>], file))
            ELSE [p1 EXCEPT !.agent[w].pc = "discovery",
                            !.discoveryCalls[c] = @ + 1]

\* One pass of the worker loop, the call of processCourse included.
WorkerLoopAgent(p, w, loadThrows) ==
    LET q == WorkerLoop(p, w) IN
    IF q.workerPc[w] = "awaiting" THEN processCourseStart(q, w, loadThrows) ELSE q

RECURSIVE StartWorkersAgent(_, _, _)
StartWorkersAgent(p, w, loads) ==
    IF w >= concurrency THEN p
    ELSE StartWorkersAgent(WorkerLoopAgent(p, w, loads[w]), w + 1, loads)

PoolRecord ==
    [queue |-> queue, activeWorkers |-> activeWorkers, workerPc |-> workerPc,
     emitted |-> emitted, agent |-> agent, manifestFile |-> manifestFile,
     discoveryCalls |-> discoveryCalls, agentResult |-> agentResult]

SetPoolRecord(p) ==
    /\ queue' = p.queue
    /\ activeWorkers' = p.activeWorkers
    /\ workerPc' = p.workerPc
    /\ emitted' = p.emitted
    /\ agent' = p.agent
    /\ manifestFile' = p.manifestFile
    /\ discoveryCalls' = p.discoveryCalls
    /\ agentResult' = p.agentResult

PipelineUnchanged ==
    UNCHANGED <<courses, concurrency, shutdownVars, scanVars, chunkVars,
                busVars, largeVars, errorLog, tuiVars, mainVars>>

PipelineStepUnchanged == PipelineUnchanged /\ UNCHANGED atEmit

\* runWorkerPool from its call to `await Promise.all(workers)`: every worker
\* started takes a course and runs processCourse up to its first await.
RunWorkerPoolAgent(loads) ==
    /\ poolPc = "notStarted"
    /\ ~processExited
    /\ LET pending == pendingCourses(courses)
           stats0 == InitialStats(Len(pending), skippedCount(courses))
           p0 == [PoolRecord EXCEPT
                     !.queue = pending,
                     !.emitted = @ \o <<EvPoolStart(concurrency), EvStatsUpdate(stats0)>>]
       IN /\ Len(pending) > 0
          /\ poolPc' = "running"
          /\ stats' = stats0
          /\ results' = <<>>
          /\ SetPoolRecord(StartWorkersAgent(p0, 0, loads))
    /\ PipelineStepUnchanged

\* await runDiscoveryAgent(...) returns.
DiscoveryReturns(w, out) ==
    /\ poolPc = "running"
    /\ ~processExited
    /\ w \in Workers
    /\ agent[w].pc = "discovery"
    /\ Max(Len(out.text.projects), Len(out.file.projects))
           + ProjectsElsewhere(agent[w].course, Len(courses)) <= MaxProjects
    /\ LET p1 == [PoolRecord EXCEPT !.manifestFile[agent[w].course] = out.file]
       IN SetPoolRecord(AfterDiscovery(p1, w, runDiscoveryAgent(out)))
    /\ UNCHANGED <<poolPc, stats, results>>
    /\ PipelineStepUnchanged

\* await runGeneratorAgent / runLargeProjectGeneration returns or throws:
\* runGitHubIntegration up to its first await, or straight on with the loop
\* when it has nothing to do or the generator threw.
GenerationReturns(w, out) ==
    /\ poolPc = "running"
    /\ ~processExited
    /\ w \in Workers
    /\ agent[w].pc = "generating"
    /\ LET a == agent[w]
           project == a.projects[Len(a.projectsGenerated) + 1]
       IN /\ out \in GenerationOutcomes(project > LARGE_PROJECT_THRESHOLD)
          /\ IF out.threw \/ out.status = "failed" \/ ~out.hasPath
             THEN SetPoolRecord(AfterProject(PoolRecord, w, out.status, out.threw))
             ELSE SetPoolRecord([PoolRecord EXCEPT
                      !.agent[w].pc = "github",
                      !.agent[w].result = out.status,
                      !.emitted = Append(@, EvGitHubStart(w))])
    /\ UNCHANGED <<poolPc, stats, results>>
    /\ PipelineStepUnchanged

\* runGitHubIntegration comes to its end: one of its three closing events,
\* then the rest of the loop body.
GitHubReturns(w, outcome) ==
    /\ poolPc = "running"
    /\ ~processExited
    /\ w \in Workers
    /\ agent[w].pc = "github"
    /\ LET p1 == [PoolRecord EXCEPT !.emitted = Append(@, EvGitHub(w, outcome))]
       IN SetPoolRecord(AfterProject(p1, w, agent[w].result, FALSE))
    /\ UNCHANGED <<poolPc, stats, results>>
    /\ PipelineStepUnchanged

\* The worker is resumed with the result of processCourse: the rest of the
\* try block, activeWorkers.delete, the shutdown check, and the next pass
\* of the loop with its call of processCourse.
WorkerResumeAgent(w, loadThrows) ==
    /\ poolPc = "running"
    /\ ~processExited
    /\ w \in Workers
    /\ workerPc[w] = "awaiting"
    /\ agent[w].pc = "resolved"
    /\ LET coursePath == activeWorkers[w]
           outcome == processCourse(coursePath, agent[w].outcome)
           s0 == [results |-> results, stats |-> stats, emitted |-> emitted,
                  atEmit |-> atEmit]
           s1 == tryBlock(s0, w, outcome.result, queue)
           p1 == [PoolRecord EXCEPT
                     !.activeWorkers = MapDelete(@, w),
                     !.agent[w] = IdleAgent,
                     !.emitted = s1.emitted]
           p2 == IF ~shouldContinueProcessing(controller)
                 THEN WorkerBreak(p1, w)
                 ELSE WorkerLoopAgent(p1, w, loadThrows)
       IN /\ results' = s1.results
          /\ stats' = s1.stats
          /\ atEmit' = s1.atEmit
          /\ SetPoolRecord(p2)
    /\ UNCHANGED poolPc
    /\ PipelineUnchanged

\* n pending courses and any manifest file for each, with at most
\* MaxProjects projects in the run.
InitPipelineOf(n) ==
    /\ courses = [i \in 1..n |-> [path |-> i, state |-> "pending"]]
    /\ InitPoolLocals
    /\ InitShutdown
    /\ emergencyInstalled = FALSE
    /\ InitNoScan
    /\ InitNoChunks
    /\ InitNoBus
    /\ InitNoLarge
    /\ agent = [w \in Workers |-> IdleAgent]
    /\ manifestFile \in [1..n -> ManifestFiles]
    /\ discoveryCalls = [c \in 1..n |-> 0]
    /\ agentResult = [c \in 1..n |-> NoAgentResult]
    /\ ProjectsElsewhere(0, n) <= MaxProjects
    /\ errorLog = <<>>
    /\ atEmit = <<>>
    /\ InitNoTui
    /\ InitInSynthesizer

\* Two pending courses, one or two workers.
InitPipeline ==
    /\ concurrency \in 1..2
    /\ InitPipelineOf(2)

NextPipeline ==
    \/ \E loads \in [Workers -> BOOLEAN] : RunWorkerPoolAgent(loads)
    \/ \E w \in Workers, out \in DiscoveryOutcomes : DiscoveryReturns(w, out)
    \/ \E w \in Workers, out \in GenerationOutcomes(TRUE) \cup GenerationOutcomes(FALSE) :
           GenerationReturns(w, out)
    \/ \E w \in Workers, g \in GitHubOutcomes : GitHubReturns(w, g)
    \/ \E w \in Workers, l \in BOOLEAN : WorkerResumeAgent(w, l)
    \/ PoolReturn

SpecPipeline == InitPipeline /\ [][NextPipeline]_vars

\* The program is run again over the same input directory and finds the
\* course pending again: a new pool, the files on disk as the last run left
\* them.
RunAgain ==
    /\ poolPc = "returned"
    /\ runs < MaxRuns
    /\ runs' = runs + 1
    /\ poolPc' = "notStarted"
    /\ queue' = <<>>
    /\ results' = <<>>
    /\ activeWorkers' = <<>>
    /\ stats' = [total |-> 0, completed |-> 0, failed |-> 0, skipped |-> 0, remaining |-> 0]
    /\ workerPc' = [w \in Workers |-> "unborn"]
    /\ emitted' = <<>>
    /\ agent' = [w \in Workers |-> IdleAgent]
    /\ agentResult' = [c \in DOMAIN agentResult |-> NoAgentResult]
    /\ atEmit' = <<>>
    /\ UNCHANGED <<courses, concurrency, manifestFile, discoveryCalls, mainPc, args,
                   shutdownVars, scanVars, chunkVars, busVars, largeVars, errorLog, tuiVars>>

\* One pending course, one worker, several runs.
InitRerun ==
    /\ concurrency = 1
    /\ InitPipelineOf(1)

NextRerun ==
    \/ NextPipeline
    \/ RunAgain

SpecRerun == InitRerun /\ [][NextRerun]_vars

----------------------------------------------------------------------------
\* The error log (logger.courseError).  An entry is written as the path of
\* the course it is about.  No call of courseError exists in runWorkerPool,
\* processCourse or runCourseAgent, so no action of the model applies it.

\* appendFileSync(join(inputDir, 'error.log'), logEntry)
courseError(log, coursePath) == Append(log, coursePath)

----------------------------------------------------------------------------
\* main() of index.ts with runSynthesizer (commands.ts).  index.ts registers
\* emergencyHandler before main() runs.

EvScanStart == [type |-> "scan:start"]
EvScanComplete(total, skipped) ==
    [type |-> "scan:complete", total |-> total, skipped |-> skipped]

\* The command lines and input directories of a run: --help, --version, no
\* -i argument, an input directory that does not exist, one that cannot be
\* read, and a usable one.
ArgsSet ==
    {[command |-> c, input |-> TRUE, inputExists |-> TRUE, inputReadable |-> TRUE] :
        c \in {"help", "version", "run"}}
    \cup {[command |-> "run", input |-> FALSE, inputExists |-> FALSE, inputReadable |-> FALSE],
          [command |-> "run", input |-> TRUE, inputExists |-> FALSE, inputReadable |-> FALSE],
          [command |-> "run", input |-> TRUE, inputExists |-> TRUE, inputReadable |-> FALSE]}

\* Faulty variant: both branches of main exit with 1.
mainExitCodeAlwaysOne(synthesizerThrew) == 1

\* try { await runSynthesizer(...); process.exit(0) } catch { process.exit(1) }
mainExitCode(synthesizerThrew) == IF synthesizerThrew THEN 1 ELSE 0

\* process.exit(code) called from main.
MainExits(code) ==
    /\ mainPc' = "exited"
    /\ processExited' = TRUE
    /\ exitCode' = code

\* main from its start to the await inside runSynthesizer, or to an exit.
Main ==
    /\ mainPc = "notStarted"
    /\ ~processExited
    /\ IF args.command \in {"help", "version"}
       THEN MainExits(0) /\ UNCHANGED emitted
       ELSE IF ~args.input
            THEN MainExits(1) /\ UNCHANGED emitted
            ELSE IF ~args.inputExists
                 THEN MainExits(mainExitCode(TRUE)) /\ UNCHANGED emitted
                 ELSE /\ mainPc' = "scanning"
                      /\ emitted' = Append(emitted, EvScanStart)
                      /\ UNCHANGED <<processExited, exitCode>>
    /\ UNCHANGED <<courses, concurrency, poolPc, queue, results, activeWorkers,
                   stats, workerPc, controller, ctrlCCount, exitTimer,
                   emergencyInstalled, emergencyCtrlCCount, scanVars, chunkVars,
                   busVars, largeVars, agentVars, errorLog, atEmit, tuiVars, args, runs>>

\* await scanForCoursesParallel(...) returns the courses or throws: with no
\* pending course runSynthesizer returns and main exits; otherwise
\* runWorkerPool is called.
ScanReturns ==
    /\ mainPc = "scanning"
    /\ ~processExited
    /\ IF ~args.inputReadable
       THEN /\ MainExits(mainExitCode(TRUE))
            /\ UNCHANGED poolVars
       ELSE LET scanComplete == EvScanComplete(Len(courses), skippedCount(courses)) IN
            IF Len(pendingCourses(courses)) = 0
            THEN /\ MainExits(mainExitCode(FALSE))
                 /\ emitted' = emitted \o
                       <<scanComplete,
                         EvPoolComplete([total |-> Len(courses), completed |-> 0,
                                         failed |-> 0,
                                         skipped |-> skippedCount(courses),
                                         remaining |-> 0])>>
                 /\ UNCHANGED <<courses, concurrency, poolPc, queue, results,
                                activeWorkers, stats, workerPc>>
            ELSE /\ mainPc' = "synthesizer"
                 /\ RunWorkerPoolAfter(Append(emitted, scanComplete))
                 /\ UNCHANGED <<courses, concurrency, processExited, exitCode>>
    /\ UNCHANGED <<controller, ctrlCCount, exitTimer, emergencyInstalled,
                   emergencyCtrlCCount, scanVars, chunkVars, busVars, largeVars,
                   agentVars, errorLog, atEmit, tuiVars, args, runs>>

\* runWorkerPool returns, then runSynthesizer, then main: process.exit(0).
MainPoolReturn ==
    /\ mainPc = "synthesizer"
    /\ PoolReturnCall
    /\ MainExits(mainExitCode(FALSE))
    /\ UNCHANGED <<courses, concurrency, controller, ctrlCCount, exitTimer,
                   emergencyInstalled, emergencyCtrlCCount, scanVars, chunkVars,
                   busVars, largeVars, agentVars, errorLog, atEmit, tuiVars, args, runs>>

InitMain ==
    /\ courses \in CourseLists
    /\ concurrency \in 1..MaxConcurrency
    /\ InitPoolLocals
    /\ InitShutdown
    /\ emergencyInstalled = TRUE
    /\ InitNoScan
    /\ InitNoChunks
    /\ InitNoBus
    /\ InitNoLarge
    /\ InitNoAgent
    /\ errorLog = <<>>
    /\ atEmit = <<>>
    /\ InitNoTui
    /\ mainPc = "notStarted"
    /\ args \in ArgsSet
    /\ runs = 1

\* The 100 ms exit timer is armed by the second call of handleSignal only,
\* which emergencyHandler forestalls: ForceExit has no part here.
NextMain ==
    \/ Main
    \/ ScanReturns
    \/ \E w \in Workers, o \in AgentOutcomes : WorkerResume(w, o)
    \/ MainPoolReturn
    \/ mainPc # "notStarted" /\ Signal

SpecMain == InitMain /\ [][NextMain]_vars

----------------------------------------------------------------------------
\* runSynthesizer with the TUI (commands.ts) beside launchTUI (launcher.ts)
\* and startTUI (app.tsx).  launchTUI awaits two dynamic imports before
\* startTUI subscribes its callback "tuiDone"; runSynthesizer goes on with
\* scanning and processing in the meantime and awaits tuiPromise at its end.
\* Only the subscription of startTUI is kept of what render() mounts.

\* eventEmitter.emit(event) as startTUI's callback sees it: the callback is
\* called if it is in the listener set now, and on pool:complete it arms the
\* 500 ms timer that will resolve the promise.
tuiAfterEmit(ls, pc, type) ==
    IF /\ \E j \in 1..Len(ls) : emit(ls, type).calls[j].listener = "tuiDone"
       /\ type = "pool:complete"
       /\ pc = "subscribed"
    THEN "timer"
    ELSE pc

TuiUnchanged ==
    UNCHANGED <<shutdownVars, scanVars, chunkVars, throwing, calls, published,
                returns, firstOn, subOrder, unsubscribed, largeVars, agentVars,
                errorLog, atEmit, mainVars>>

\* runSynthesizer from its call to `await import('./tui/launcher.js')`.
RunSynthesizerTui ==
    /\ synthPc = "notCalled"
    /\ synthPc' = "importLauncher"
    /\ UNCHANGED <<poolVars, listeners, tuiPc>>
    /\ TuiUnchanged

\* The launcher module is loaded: launchTUI(...) runs to its first await,
\* scan:start is emitted, scanForCoursesParallel is called and awaited.
LauncherLoaded ==
    /\ synthPc = "importLauncher"
    /\ tuiPc' = tuiAfterEmit(listeners, "preload", "scan:start")
    /\ emitted' = Append(emitted, EvScanStart)
    /\ synthPc' = "scanning"
    /\ UNCHANGED <<courses, concurrency, poolPc, queue, results, activeWorkers,
                   stats, workerPc, listeners>>
    /\ TuiUnchanged

\* await import('@opentui/solid/preload') is done; import('./app.js') begins.
PreloadLoaded ==
    /\ tuiPc = "preload"
    /\ tuiPc' = "app"
    /\ UNCHANGED <<poolVars, listeners, synthPc>>
    /\ TuiUnchanged

\* app.js is loaded: startTUI renders and subscribes its callback.
AppLoaded ==
    /\ tuiPc = "app"
    /\ listeners' = on(listeners, calls, "tuiDone", Len(emitted)).listeners
    /\ tuiPc' = "subscribed"
    /\ UNCHANGED <<poolVars, synthPc>>
    /\ TuiUnchanged

\* await scanForCoursesParallel(...) returns: scan:complete; with nothing
\* pending pool:complete is emitted here and tuiPromise awaited, otherwise
\* runWorkerPool is called.
TuiScanReturns ==
    /\ synthPc = "scanning"
    /\ LET scanComplete == EvScanComplete(Len(courses), skippedCount(courses)) IN
       IF Len(pendingCourses(courses)) = 0
       THEN /\ emitted' = emitted \o
                   <<scanComplete,
                     EvPoolComplete([total |-> Len(courses), completed |-> 0,
                                     failed |-> 0,
                                     skipped |-> skippedCount(courses),
                                     remaining |-> 0])>>
            /\ tuiPc' = tuiAfterEmit(listeners, tuiPc, "pool:complete")
            /\ synthPc' = "awaitTui"
            /\ UNCHANGED <<courses, concurrency, poolPc, queue, results,
                           activeWorkers, stats, workerPc>>
       ELSE /\ RunWorkerPoolAfter(Append(emitted, scanComplete))
            /\ synthPc' = "pool"
            /\ UNCHANGED <<courses, concurrency, tuiPc>>
    /\ UNCHANGED listeners
    /\ TuiUnchanged

\* runWorkerPool emits pool:complete and returns; tuiPromise is awaited.
TuiPoolReturn ==
    /\ synthPc = "pool"
    /\ PoolReturnCall
    /\ tuiPc' = tuiAfterEmit(listeners, tuiPc, "pool:complete")
    /\ synthPc' = "awaitTui"
    /\ UNCHANGED <<courses, concurrency, listeners>>
    /\ TuiUnchanged

\* The 500 ms timer of startTUI's callback: cleanup, unsubscribe, resolve.
TuiTimer ==
    /\ tuiPc = "timer"
    /\ listeners' = setDelete(listeners, "tuiDone")
    /\ tuiPc' = "resolved"
    /\ UNCHANGED <<poolVars, synthPc>>
    /\ TuiUnchanged

\* await tuiPromise is satisfied: runSynthesizer returns.
SynthReturn ==
    /\ synthPc = "awaitTui"
    /\ tuiPc = "resolved"
    /\ synthPc' = "returned"
    /\ UNCHANGED <<poolVars, listeners, tuiPc>>
    /\ TuiUnchanged

InitTui ==
    /\ courses \in CourseLists
    /\ concurrency \in 1..MaxConcurrency
    /\ InitPoolLocals
    /\ InitShutdown
    /\ emergencyInstalled = FALSE
    /\ InitNoScan
    /\ InitNoChunks
    /\ InitNoBus
    /\ InitNoPipe

NextTui ==
    \/ RunSynthesizerTui
    \/ LauncherLoaded
    \/ PreloadLoaded
    \/ AppLoaded
    \/ TuiScanReturns
    \/ \E w \in Workers, o \in AgentOutcomes : synthPc = "pool" /\ WorkerResume(w, o)
    \/ TuiPoolReturn
    \/ TuiTimer
    \/ SynthReturn

\* Every module load, collaborator call and timer comes to its end.
SpecTui ==
    /\ InitTui
    /\ [][NextTui]_vars
    /\ WF_vars(NextTui)

----------------------------------------------------------------------------
\* Properties.

EventIdx == 1..Len(emitted)
ResultIdx == 1..Len(results)
CourseIdx == 1..Len(courses)

\* Number of worker:start events published so far (one per dequeue).
Dequeues(log) == Cardinality({i \in 1..Len(log) : log[i].type = "worker:start"})

\* Results recorded for a course, and workers holding it.
ResultsFor(c) == {j \in ResultIdx : results[j].coursePath = c}
HoldersOf(c) == {w \in DOMAIN activeWorkers : activeWorkers[w] = c}
StartsOf(c) == {i \in EventIdx : emitted[i].type = "worker:start" /\ emitted[i].course = c}

IsStatsEvent(e) == e.type = "stats:update" \/ e.type = "pool:complete"

Accounted(s) == s.completed + s.failed + s.skipped

\* C1 as stated: when runWorkerPool has returned, completed + failed +
\* skipped equals total, whenever a graceful shutdown was requested.
C1_AllCountedAtReturn ==
    poolPc = "returned" => Accounted(stats) = stats.total

\* C1 amended: when runWorkerPool has returned after starting its workers,
\* completed + failed + skipped + remaining equals total, remaining being
\* the number of courses a graceful shutdown left in the queue; completed +
\* failed + skipped equals total when the queue was drained.  The stats
\* published with pool:complete are these final stats.
C1_AllCountedWithRemaining ==
    (poolPc = "returned" /\ Len(pendingCourses(courses)) > 0) =>
        /\ Accounted(stats) + stats.remaining = stats.total
        /\ stats.remaining = Len(queue)
        /\ stats.total = Len(courses)
        /\ queue = <<>> => Accounted(stats) = stats.total
        /\ \E i \in EventIdx : emitted[i] = EvPoolComplete(stats)

\* A run cut short by a graceful shutdown has returned with work done and
\* work left.
C1_Witness ==
    /\ poolPc = "returned"
    /\ stats.remaining > 0
    /\ stats.completed + stats.failed > 0
    /\ stats.skipped > 0

\* C2: every step that dequeues a course (publishes a worker:start) is taken
\* from a state in which isShuttingDown is false.
C2_NoDequeueDuringShutdown ==
    [][Dequeues(emitted') > Dequeues(emitted) => ~controller.isShuttingDown]_vars

\* A worker finished a course during shutdown and stopped, leaving courses
\* in the queue.
C2_Witness ==
    /\ controller.isShuttingDown
    /\ queue # <<>>
    /\ results # <<>>
    /\ \A w \in Workers : workerPc[w] = "exited"
    /\ \E i, j \in EventIdx :
          /\ i < j
          /\ emitted[i].type = "shutdown:signal"
          /\ emitted[j].type = "worker:complete"

\* C3: once a worker has exited, every course it dequeued has exactly one
\* CourseResult in results, also when the shutdown was requested while the
\* course was in flight.
C3_ClaimedUnitHasOneResult ==
    \A i \in EventIdx :
        (emitted[i].type = "worker:start" /\ workerPc[emitted[i].workerId] = "exited")
            => Cardinality(ResultsFor(emitted[i].course)) = 1

\* A course was dequeued, the shutdown was requested while it was in flight,
\* and its worker recorded the result and exited; no forced exit.
C3_Witness ==
    /\ ~controller.forceExit
    /\ \E i, j, k \in EventIdx :
          /\ i < j /\ j < k
          /\ emitted[i].type = "worker:start"
          /\ emitted[j].type = "shutdown:signal"
          /\ emitted[k].type = "worker:complete"
          /\ emitted[k].workerId = emitted[i].workerId
          /\ emitted[k].result.coursePath = emitted[i].course
          /\ workerPc[emitted[i].workerId] = "exited"
          /\ Cardinality(ResultsFor(emitted[i].course)) = 1

\* C4: a course is dequeued at most once, is held by at most one worker, and
\* has at most one result; while a worker holds it, it has no result yet.
C4_NoDoubleDequeue ==
    \A c \in CourseIdx :
        /\ Cardinality(StartsOf(c)) <= 1
        /\ Cardinality(HoldersOf(c)) + Cardinality(ResultsFor(c)) <= 1
        /\ \A i \in 1..Len(queue) : queue[i].path = c =>
               (StartsOf(c) = {} /\ \A j \in 1..Len(queue) : queue[j].path = c => j = i)

\* Two workers hold different courses while the result of an earlier course
\* is already recorded.
C4_Witness ==
    /\ Cardinality(DOMAIN activeWorkers) >= 2
    /\ \E v, w \in DOMAIN activeWorkers : activeWorkers[v] # activeWorkers[w]
    /\ results # <<>>

FailedResults == {j \in ResultIdx : results[j].status = "failed"}

\* C5: a failed pipeline is recorded as a 'failed' result counted in
\* stats.failed; the pool keeps running, and the worker that recorded the
\* failure goes on exactly as after a success: it takes the head of the
\* queue unless the queue is empty or a shutdown was requested.  Without a
\* shutdown request the pool returns only when every pending course has a
\* result.
C5_FailureDoesNotAbortPool ==
    /\ [](/\ stats.failed = Cardinality(FailedResults)
          /\ stats.completed = Len(results) - Cardinality(FailedResults)
          /\ (poolPc = "returned" /\ ~controller.isShuttingDown)
                => Len(results) = Len(pendingCourses(courses)))
    /\ [][(/\ Len(results') = Len(results) + 1
           /\ results'[Len(results')].status = "failed")
          => /\ poolPc' = "running"
             /\ queue' = IF controller.isShuttingDown \/ queue = <<>>
                         THEN queue ELSE Tail(queue)
             /\ Dequeues(emitted') = Dequeues(emitted) +
                    (IF controller.isShuttingDown \/ queue = <<>> THEN 0 ELSE 1)]_vars

\* The first course failed, and the pool still processed later courses and
\* returned.
C5_Witness ==
    /\ poolPc = "returned"
    /\ Len(results) >= 3
    /\ results[1].status = "failed"
    /\ results[Len(results)].status = "complete"
    /\ stats.failed = 1

\* C6: five pending courses, two workers, no shutdown request and every
\* pipeline returning 'complete': the final stats, also published with
\* pool:complete as the last event, are {5, 5, 0, 0, 0}.
C6_FiveCoursesTwoWorkers ==
    (/\ poolPc = "returned"
     /\ Len(courses) = 5
     /\ \A c \in CourseIdx : courses[c].state = "pending"
     /\ concurrency = 2
     /\ ctrlCCount = 0
     /\ \A j \in ResultIdx : results[j].status = "complete")
    => /\ stats = [total |-> 5, completed |-> 5, failed |-> 0,
                   skipped |-> 0, remaining |-> 0]
       /\ emitted[Len(emitted)] = EvPoolComplete(stats)
       /\ Len(results) = 5

\* The scenario has run to its end, the pipelines finishing in an order
\* other than the queue order.
C6_Witness ==
    /\ poolPc = "returned"
    /\ Len(courses) = 5
    /\ concurrency = 2
    /\ ctrlCCount = 0
    /\ Len(results) = 5
    /\ \A j \in ResultIdx : results[j].status = "complete"
    /\ results[1].coursePath = 2

SkippedCourses == {c \in CourseIdx : courses[c].state = "skipped"}

\* C7: a skipped course is never in the queue, never held by a worker, never
\* started and never has a result; every stats snapshot the pool publishes
\* counts the skipped courses in total and in skipped.
C7_SkippedCountedNotDispatched ==
    /\ \A c \in SkippedCourses :
          /\ StartsOf(c) = {}
          /\ HoldersOf(c) = {}
          /\ ResultsFor(c) = {}
          /\ \A i \in 1..Len(queue) : queue[i].path # c
    /\ \A i \in EventIdx : IsStatsEvent(emitted[i]) =>
          /\ emitted[i].stats.total = Len(courses)
          /\ emitted[i].stats.skipped = Cardinality(SkippedCourses)

\* A list with skipped and pending courses was processed to the end.
C7_Witness ==
    /\ poolPc = "returned"
    /\ Cardinality(SkippedCourses) >= 1
    /\ Len(results) >= 2
    /\ \E i \in EventIdx : emitted[i].type = "pool:complete"

CompleteMarkers == {"complete", "completed"}

\* C8: once scanned, a course whose progress.json says complete (or
\* completed) and whose CODE/__CC_Projects exists is classified 'skipped',
\* after the first scan and after every later one, and the scans leave the
\* directory as it was.
C8_CompleteWithOutputSkipped ==
    (scans >= 1 /\ disk0.marker \in CompleteMarkers /\ disk0.hasProjects)
        => (scanned = "skipped" /\ disk = disk0 /\ pipeline = "none")

\* A course marked 'completed' with output has been scanned three times.
C8_Witness ==
    /\ scans >= 3
    /\ disk0.marker = "completed"
    /\ disk0.hasProjects
    /\ scanned = "skipped"

C11_NoMarkerFollowsOutput ==
    (scans >= 1 /\ disk0.marker = "absent")
        => /\ scanned = (IF disk0.hasProjects THEN "skipped" ELSE "pending")
           /\ disk.marker = "absent"
           /\ disk.hasProjects = disk0.hasProjects
           /\ disk0.hasManifest => disk.hasManifest

\* A course without marker but with output and a manifest was scanned twice
\* and skipped; output and manifest are still there.
C11_Witness ==
    /\ scans >= 2
    /\ disk0.marker = "absent"
    /\ disk0.hasProjects
    /\ disk0.hasManifest
    /\ disk.hasProjects
    /\ disk.hasManifest
    /\ scanned = "skipped"

\* The items of all chunks, in chunk order.
RECURSIVE chunkItems(_, _)

chunkItems(cs, k) ==
    IF k > Len(cs) THEN <<>> ELSE cs[k].srts \o chunkItems(cs, k + 1)

\* s without the later occurrences of items that occur more than once.
RECURSIVE removeRepeated(_, _)

removeRepeated(s, k) ==
    IF k > Len(s) THEN <<>>
    ELSE IF \E j \in 1..(k - 1) : s[j] = s[k]
         THEN removeRepeated(s, k + 1)
         ELSE <<s[k]>> \o removeRepeated(s, k + 1)

ChunkIdx == 1..Len(chunks)

\* C12: the items of the returned chunks, concatenated in chunk order with
\* repeated items removed, are the input list in its order.
C12_ChunksCoverInputInOrder ==
    chunkPc = "returned" => removeRepeated(chunkItems(chunks, 1), 1) = srts

\* A list with a gap was planned into several chunks, the last of which
\* absorbed an undersized tail.
C12_Witness ==
    /\ chunkPc = "returned"
    /\ Len(chunks) >= 2
    /\ Len(chunks[Len(chunks)].srts) > CHUNK_SIZE
    /\ \E j \in 1..(Len(srts) - 1) : srts[j + 1].filename # srts[j].filename + 1

\* The last n elements of s (all of s when it is shorter).
lastItems(s, n) == SubSeq(s, Max(1, Len(s) - n + 1), Len(s))

\* C13: for every returned chunk after the first, overlap_from_previous is
\* the filenames of the last CHUNK_OVERLAP items of the chunk before it.
C13_OverlapIsSuffixOfPrevious ==
    chunkPc = "returned" =>
        \A k \in ChunkIdx \ {1} :
            chunks[k].overlap_from_previous
                = filenames(lastItems(chunks[k - 1].srts, CHUNK_OVERLAP))

\* What the code does instead: overlap_from_previous names the CHUNK_OVERLAP
\* items that come just before the chunk's own first item; they belong to the
\* previous chunk but are not its last items.
C13_OverlapPrecedesChunk ==
    chunkPc = "returned" =>
        \A k \in ChunkIdx \ {1} :
            LET prev == filenames(chunks[k - 1].srts)
                own == filenames(chunks[k].srts)
                ov == chunks[k].overlap_from_previous
            IN  /\ Len(ov) = CHUNK_OVERLAP
                /\ \E j \in 1..(Len(prev) - CHUNK_OVERLAP) :
                       /\ SubSeq(prev, j, j + CHUNK_OVERLAP - 1) = ov
                       /\ prev[j + CHUNK_OVERLAP] = own[1]
                /\ \A j \in 1..Len(ov) : ~includes(chunks[k].srts, SrtFile(ov[j]))

\* C14 as claimed: no returned chunk holds more than CHUNK_SIZE items.
C14_AtMostChunkSize ==
    chunkPc = "returned" => \A k \in ChunkIdx : Len(chunks[k].srts) <= CHUNK_SIZE

\* C14: every returned chunk but the last holds exactly CHUNK_SIZE items, and
\* the last one holds at most CHUNK_SIZE + 2: a merged tail has at most four
\* items, two of which the chunk holds already.
C14_AtMostChunkSizeButMergedLast ==
    chunkPc = "returned" =>
        /\ \A k \in ChunkIdx \ {Len(chunks)} : Len(chunks[k].srts) = CHUNK_SIZE
        /\ \A k \in ChunkIdx : Len(chunks[k].srts) <= CHUNK_SIZE + 2

\* Twelve files were planned: the tail of four files, two of them new, was
\* merged into the only chunk, which now holds twelve.
C14_Witness ==
    /\ chunkPc = "returned"
    /\ Len(srts) = 12
    /\ Len(chunks) = 1
    /\ Len(chunks[1].srts) = CHUNK_SIZE + 2

\* The files 1..n, none missing.
Consecutive(n) == [i \in 1..n |-> SrtFile(i)]

\* The numbers of items of the chunks, in chunk order.
chunkSizes(cs) == [k \in 1..Len(cs) |-> Len(cs[k].srts)]

\* C15 as claimed: 23 files are planned into two chunks of 10 and 13 items,
\* each with total = 2.
C15_TwentyThreeGiveTwoChunks ==
    (chunkPc = "returned" /\ srts = Consecutive(23)) =>
        /\ chunkSizes(chunks) = <<10, 13>>
        /\ \A k \in ChunkIdx : chunks[k].total = 2

\* C15: 23 files are planned into three chunks of 10, 10 and 7 items (files
\* 1..10, 9..18 and 17..23), each with total = 3: the third window holds
\* seven files, not fewer than half a window, and is not merged.
C15_TwentyThreeGiveThreeChunks ==
    (chunkPc = "returned" /\ srts = Consecutive(23)) =>
        /\ chunkSizes(chunks) = <<10, 10, 7>>
        /\ filenames(chunks[1].srts) = [j \in 1..10 |-> j]
        /\ filenames(chunks[2].srts) = [j \in 1..10 |-> j + 8]
        /\ filenames(chunks[3].srts) = [j \in 1..7 |-> j + 16]
        /\ \A k \in ChunkIdx : chunks[k].total = 3

\* The 23 files have been planned.
C15_Witness ==
    /\ chunkPc = "returned"
    /\ srts = Consecutive(23)
    /\ Len(chunks) = 3

\* C16: every returned chunk carries total = the number of chunks returned,
\* and the chunk at position k (from 0) carries index k, merged tail or not.
C16_TotalAndIndex ==
    chunkPc = "returned" =>
        \A k \in ChunkIdx :
            /\ chunks[k].total = Len(chunks)
            /\ chunks[k].index = k - 1

\* A plan whose tail was merged: the count estimated before the loop
\* (ceil(length / CHUNK_SIZE)) is not the number of chunks returned.
C16_Witness ==
    /\ chunkPc = "returned"
    /\ Len(chunks) >= 1
    /\ Len(chunks[Len(chunks)].srts) > CHUNK_SIZE
    /\ totalChunks(srts) # Len(chunks)
    /\ chunks[Len(chunks)].total = Len(chunks)

PublishedIdx == 1..Len(published)

\* The calls of calls that deliver event e to listener l.
CallsOf(l, e) == {j \in 1..Len(calls) : calls[j] = Call(l, e)}

\* C17: every emit call has returned normally, and each listener subscribed
\* at the call, throwing or not, has been called with its event, wherever a
\* throwing listener stood among them.
C17_ThrowingListenerIsContained ==
    \A e \in PublishedIdx :
        /\ returns[e] = "normal"
        /\ \A j \in 1..Len(published[e]) : CallsOf(published[e][j], e) # {}

\* An event was published to three listeners of which the second throws;
\* the third was called after it and emit returned normally.
C17_Witness ==
    \E e \in PublishedIdx :
        /\ Len(published[e]) = 3
        /\ published[e][2] \in throwing
        /\ published[e][3] \notin throwing
        /\ CallsOf(published[e][3], e) # {}
        /\ returns[e] = "normal"

\* The calls expected for the events from e on: each event to the listeners
\* subscribed when it was published, in the order they subscribed.
RECURSIVE expectedCalls(_)

expectedCalls(e) ==
    IF e > Len(published) THEN <<>>
    ELSE [j \in 1..Len(published[e]) |-> Call(published[e][j], e)]
         \o expectedCalls(e + 1)

\* C18: the calls made so far are, event after event in publication order,
\* one call to each listener subscribed at the emit, in subscription order;
\* they are all made by the time the emit step ends.
C18_OncePerListenerInOrder == calls = expectedCalls(1)

\* Two events were published; both reached the same two listeners, the
\* earlier subscriber first, and a third listener joined for the second.
C18_Witness ==
    /\ Len(published) = 2
    /\ Len(published[1]) = 2
    /\ Len(published[2]) = 3
    /\ SubSeq(published[2], 1, 2) = published[1]
    /\ Len(calls) = 5

\* C19: no listener has been called with an event published before its
\* on().
C19_NoReplay ==
    \A j \in 1..Len(calls) : calls[j].event > firstOn[calls[j].listener]

\* A listener subscribed after the first event, received the second and
\* never the first.
C19_Witness ==
    \E l \in Listeners :
        /\ firstOn[l] = 1
        /\ CallsOf(l, 2) # {}
        /\ CallsOf(l, 1) = {}

\* C20: before any signal the controller is Running (both flags false),
\* and the step that handles the first signal sets isShuttingDown, leaves
\* forceExit false, hands shutdown:signal with count 1 to the emitter, arms
\* no exit timer and does not end the process.
C20_FirstSignalGraceful ==
    /\ [](emergencyCtrlCCount = 0 /\ ctrlCCount = 0
            => ~controller.isShuttingDown /\ ~controller.forceExit)
    /\ [][(ctrlCCount = 0 /\ emergencyCtrlCCount = 0
            /\ (ctrlCCount' = 1 \/ emergencyCtrlCCount' = 1))
          => /\ controller'.isShuttingDown
             /\ ~controller'.forceExit
             /\ emitted' = Append(emitted, EvShutdownSignal(1))
             /\ ~exitTimer'
             /\ ~processExited']_vars

\* The first signal arrived while a unit was in flight, with both handlers
\* registered: the stop is graceful and the process lives.
C20_Witness ==
    /\ emergencyInstalled
    /\ ctrlCCount = 1
    /\ emergencyCtrlCCount = 1
    /\ controller.isShuttingDown
    /\ ~controller.forceExit
    /\ ~processExited
    /\ DOMAIN activeWorkers # {}
    /\ emitted[Len(emitted)] = EvShutdownSignal(1)

\* The step that handles the second signal.
SecondSignalStep ==
    \/ ctrlCCount = 1 /\ ctrlCCount' = 2
    \/ emergencyCtrlCCount = 1 /\ emergencyCtrlCCount' = 2

\* C21: the step that handles the second signal sets forceExit and arms the
\* exit timer without ending the process yet, and a process ended after a
\* forced exit was requested has a non-zero exit code.
C21_SecondSignalForcesNonZeroExit ==
    /\ [][SecondSignalStep
            => controller'.forceExit /\ exitTimer' /\ ~processExited']_vars
    /\ []((processExited /\ controller.forceExit) => exitCode > 0)

\* What both handler configurations do share on the second signal: forceExit
\* is set by the step that handles it, and the process ends no earlier.
C21_SecondSignalSetsForceExit ==
    /\ [][SecondSignalStep => controller'.forceExit]_vars
    /\ [](processExited => controller.forceExit)

\* C22: forceExit is true only when isShuttingDown is, and no step takes
\* either flag back to false.
C22_ShutdownOnlyMovesForward ==
    /\ [](controller.forceExit => controller.isShuttingDown)
    /\ [][/\ controller.isShuttingDown => controller'.isShuttingDown
          /\ controller.forceExit => controller'.forceExit]_vars

\* Two signals were handled by handleSignal while a unit was in flight, and
\* the exit timer has fired: the controller went Running, GracefulStop,
\* ForcedExit.
C22_Witness ==
    /\ ctrlCCount = 2
    /\ controller.isShuttingDown
    /\ controller.forceExit
    /\ processExited
    /\ DOMAIN activeWorkers # {}

\* C24: the project returned by the chunked branch is 'success' only if at
\* least one chunk produced a file and no chunk recorded an error, 'partial'
\* if files were produced and at least one error was recorded, and 'failed'
\* in every other case; its files and errors are those the chunks left.
C24_LargeProjectStatus ==
    largePc = "returned" =>
        LET r == largeResult
            someFile == Len(r.files_created) > 0
            someError == Len(r.errors) > 0
        IN /\ r.status = "success" <=> (someFile /\ ~someError)
           /\ r.status = "partial" <=> (someFile /\ someError)
           /\ r.status = "failed" <=> ~someFile
           /\ r.status \in {"success", "partial", "failed"}
           /\ someFile => r.files_created = allFilesCreated /\ r.errors = allErrors
           /\ \A i \in 1..Len(r.files_created) : r.files_created[i] \in 1..Len(chunks)

\* Several chunks were generated; files exist and one chunk recorded an error.
C24_Witness ==
    /\ largePc = "returned"
    /\ Len(chunks) >= 2
    /\ largeResult.status = "partial"
    /\ Len(allFilesCreated) >= 1
    /\ Len(allErrors) = 1

\* The number of 'failed' entries in a list of project statuses.
RECURSIVE FailedCount(_)
FailedCount(statuses) ==
    IF statuses = <<>> THEN 0
    ELSE (IF Head(statuses) = "failed" THEN 1 ELSE 0) + FailedCount(Tail(statuses))

ReturnedCourses == {c \in DOMAIN agentResult : agentResult[c].status # "none"}

\* C23: in runCourseAgent an exception while generating a project becomes
\* that project's 'failed' entry and the loop goes on: every project of the
\* manifest has its entry when the function returns.  The course is 'failed'
\* exactly when every entry is 'failed', and 'complete' otherwise.
C23_FailedOnlyIfAllProjectsFailed ==
    /\ \A w \in DOMAIN agent :
          /\ agent[w].errors <= FailedCount(agent[w].projectsGenerated)
          /\ agent[w].pc \in {"generating", "github"} =>
                Len(agent[w].projectsGenerated) < Len(agent[w].projects)
    /\ \A c \in ReturnedCourses :
          LET r == agentResult[c] IN
          IF r.status = "no_projects"
          THEN r.projectsGenerated = <<>>
          ELSE /\ Len(r.projectsGenerated) = r.project_count
               /\ r.project_count >= 1
               /\ r.errors <= FailedCount(r.projectsGenerated)
               /\ r.status = "failed" <=> FailedCount(r.projectsGenerated) = r.project_count
               /\ r.status = "complete" <=> FailedCount(r.projectsGenerated) < r.project_count
               /\ r.status \in {"failed", "complete"}

\* The generator threw for the first of two projects; the second was still
\* generated and succeeded, and the course came back 'complete'.
C23_Witness ==
    \E c \in ReturnedCourses :
        /\ agentResult[c].projectsGenerated = <<"failed", "success">>
        /\ agentResult[c].errors = 1
        /\ agentResult[c].status = "complete"

\* The course came back with some project generated and some project failed
\* or only partly generated.
PartlyGenerated(c) ==
    LET g == agentResult[c].projectsGenerated IN
    /\ \E i \in 1..Len(g) : g[i] \in {"failed", "partial"}
    /\ \E i \in 1..Len(g) : g[i] # "failed"

\* C25: a course of which some projects or chunks were generated while
\* others failed has a 'partial' or 'failed' result; it is never reported as
\* a success.
C25_PartialNeverReportedAsSuccess ==
    \A i \in 1..Len(results) :
        PartlyGenerated(results[i].coursePath) =>
            /\ results[i].status \in {"partial", "failed"}
            /\ stats.completed < i

\* The workers whose call of runCourseAgent has started and not yet been
\* taken back by the pool.
InPipeline == {w \in DOMAIN agent : agent[w].pc # "idle" /\ agent[w].outcome # "throws"}

\* C26: when project-findings.json exists as a course's pipeline starts, no
\* discovery call is made and the manifest is the one on disk; otherwise
\* exactly one discovery call is made.  A discovery call is never made for a
\* course whose manifest file exists, in this run or in a later one.
C26_DiscoveryOnlyWithoutManifest ==
    /\ [](\A w \in InPipeline :
             LET a == agent[w]
                 c == a.course
             IN /\ a.manifestExisted => discoveryCalls[c] = a.callsBefore
                /\ ~a.manifestExisted => discoveryCalls[c] = a.callsBefore + 1
                /\ a.pc = "discovery" => manifestFile[c].kind = "absent"
                /\ (a.manifestExisted /\ a.pc \in {"generating", "github"}) =>
                       /\ manifestFile[c].kind = "valid"
                       /\ a.projects = manifestFile[c].projects)
    /\ [][\A c \in DOMAIN discoveryCalls :
             discoveryCalls'[c] # discoveryCalls[c] =>
                 /\ manifestFile[c].kind = "absent"
                 /\ discoveryCalls'[c] = discoveryCalls[c] + 1]_vars

\* The first run called discovery, which wrote the manifest; the second run
\* loaded it and went on to generation without another call.
C26_Witness ==
    /\ runs = 2
    /\ discoveryCalls[1] = 1
    /\ \E w \in InPipeline :
          /\ agent[w].manifestExisted
          /\ agent[w].pc = "generating"
          /\ agent[w].callsBefore = 1

\* C27: every unit that ends with a failed result has an entry in error.log,
\* and the entries already in the log are never removed or rewritten.
C27_FailedUnitsAreLogged ==
    /\ [](\A i \in 1..Len(results) :
             results[i].status = "failed" =>
                 \E j \in 1..Len(errorLog) :
                     errorLog = courseError(SubSeq(errorLog, 1, j - 1), results[i].coursePath)
                                    \o SubSeq(errorLog, j + 1, Len(errorLog)))
    /\ [][/\ Len(errorLog') >= Len(errorLog)
          /\ SubSeq(errorLog', 1, Len(errorLog)) = errorLog]_vars

\* The run was started without an input directory, or with one that does
\* not exist or cannot be read.
StartupError ==
    /\ args.command = "run"
    /\ ~args.input \/ ~args.inputExists \/ ~args.inputReadable

StartEvents == SelectSeq(emitted, LAMBDA e : e.type = "worker:start")
IsCloseEvent(e) == e.type = "worker:complete" \/ e.type = "worker:error"

\* C29: at most `concurrency` units are in flight, each held by one worker
\* that holds nothing else, and the units in flight are those dispatched
\* and not yet recorded.  With concurrency = 1 the units are dispatched in
\* queue order, each one only after the result of the one before it has
\* been recorded.
C29_AtMostConcurrencyInFlight ==
    /\ Cardinality(DOMAIN activeWorkers) <= concurrency
    /\ DOMAIN activeWorkers \subseteq Workers
    /\ \A v, w \in DOMAIN activeWorkers : v # w => activeWorkers[v] # activeWorkers[w]
    /\ Len(StartEvents) - Len(results) = Cardinality(DOMAIN activeWorkers)
    /\ concurrency = 1 =>
          LET pending == pendingCourses(courses) IN
          /\ \A k \in 1..Len(StartEvents) : StartEvents[k].course = pending[k].path
          /\ \A k \in ResultIdx : results[k].coursePath = pending[k].path
          /\ \A i \in EventIdx :
                emitted[i].type = "worker:start" =>
                    Cardinality({j \in 1..(i - 1) : IsCloseEvent(emitted[j])})
                        = Cardinality({j \in 1..(i - 1) : emitted[j].type = "worker:start"})

\* One worker, three pending courses: the first two are recorded in queue
\* order and the third is in flight.
C29_Witness ==
    /\ concurrency = 1
    /\ Len(pendingCourses(courses)) = 3
    /\ Len(results) = 2
    /\ Len(StartEvents) = 3
    /\ Cardinality(DOMAIN activeWorkers) = 1


\* The events about one unit, by the worker that processes it; the events
\* of runGitHubIntegration sit between them and are not ordered by the claim.
UnitEventTypes ==
    {"worker:start", "worker:discovery:start", "worker:discovery:complete",
     "worker:generation:start", "worker:generation:progress",
     "worker:complete", "worker:error"}
IsUnitEventOf(e, w) == e.type \in UnitEventTypes /\ e.workerId = w
\* The last event before position i about the unit of the same worker
\* (0: there is none).
PrevUnitEvent(i) ==
    LET w == emitted[i].workerId
        before == {j \in 1..(i - 1) : IsUnitEventOf(emitted[j], w)}
    IN IF before = {} THEN 0 ELSE CHOOSE j \in before : \A k \in before : k <= j
ClosedBefore(i) == Cardinality({j \in 1..i : IsCloseEvent(emitted[j])})

\* C30: the events of one unit come in the order worker:start,
\* worker:discovery:start, worker:discovery:complete, worker:generation:start,
\* worker:generation:progress with current 1, 2, ... up to total, then
\* worker:complete or worker:error, and right after it the stats:update whose
\* counters include the unit; a stage is left out only by a unit that ends
\* before it (load failure, no projects), and every stats:update after the
\* first one follows the closing event of a unit.
C30_UnitEventOrder ==
    \A i \in EventIdx :
        LET e == emitted[i]
            j == PrevUnitEvent(i)
            prev == IF j = 0 THEN "none" ELSE emitted[j].type
        IN
        /\ e.type = "worker:start" =>
              prev \in {"none", "worker:complete", "worker:error"}
        /\ e.type = "worker:discovery:start" =>
              j = i - 1 /\ prev = "worker:start"
        /\ e.type = "worker:discovery:complete" =>
              prev = "worker:discovery:start"
        /\ e.type = "worker:generation:start" =>
              prev = "worker:discovery:complete" /\ e.total >= 1
        /\ e.type = "worker:generation:progress" =>
              \/ prev = "worker:generation:start"
                    /\ e.current = 1 /\ e.total = emitted[j].total
              \/ prev = "worker:generation:progress"
                    /\ e.current = emitted[j].current + 1
                    /\ e.current <= e.total /\ e.total = emitted[j].total
        /\ IsCloseEvent(e) =>
              /\ \/ prev = "worker:discovery:start"
                 \/ prev = "worker:discovery:complete"
                 \/ prev = "worker:generation:progress"
                       /\ emitted[j].current = emitted[j].total
              /\ i < Len(emitted)
              /\ emitted[i + 1].type = "stats:update"
              /\ emitted[i + 1].stats.completed + emitted[i + 1].stats.failed
                     = ClosedBefore(i)
        /\ (e.type = "stats:update" /\ i > 2) => IsCloseEvent(emitted[i - 1])

\* Two workers whose units' events interleave: one unit has gone through
\* discovery, generation of two projects and its closing events while the
\* other worker's unit, started before, is still open.
C30_Witness ==
    \E i, k \in EventIdx :
        /\ emitted[i].type = "worker:generation:progress"
        /\ emitted[i].current = 2 /\ emitted[i].total = 2
        /\ k > i
        /\ emitted[k].type = "worker:complete"
        /\ emitted[k].workerId = emitted[i].workerId
        /\ \E v \in DOMAIN activeWorkers :
              /\ v # emitted[i].workerId
              /\ \E s \in 1..(i - 1) : emitted[s] = EvWorkerStart(v, activeWorkers[v])
              /\ \E d \in (i + 1)..(k - 1) :
                    emitted[d].type = "worker:discovery:complete" /\ emitted[d].workerId = v


\* The unit a closing event is about, and the closing events about unit c.
CloseCourse(e) == IF e.type = "worker:complete" THEN e.result.coursePath ELSE e.coursePath
CloseEventsOf(c) == {i \in EventIdx : IsCloseEvent(emitted[i]) /\ CloseCourse(emitted[i]) = c}
InFlight(c) == \E w \in DOMAIN activeWorkers : activeWorkers[w] = c

\* C31: a unit has no closing event (worker:complete, worker:error) while it
\* is not dispatched or still in flight and exactly one once its worker has
\* let go of it; and at the moment any closing event was emitted, the unit's
\* result was already in the results list and the counters already counted
\* it.
C31_OneCloseEventAfterRecording ==
    /\ \A i \in DOMAIN courses :
          LET c == courses[i].path IN
          Cardinality(CloseEventsOf(c)) =
              IF StartsOf(c) # {} /\ ~InFlight(c) THEN 1 ELSE 0
    /\ Len(atEmit) = ClosedBefore(Len(emitted))
    /\ \A k \in 1..Len(atEmit) :
          /\ atEmit[k].recorded
          /\ atEmit[k].counted = atEmit[k].closing
          /\ atEmit[k].closing = k

\* Two units have been closed, one counted as completed and one as failed,
\* while a third is in flight.
C31_Witness ==
    /\ Len(atEmit) = 2
    /\ stats.completed = 1 /\ stats.failed = 1
    /\ Cardinality(DOMAIN activeWorkers) >= 1


\* The units whose `await processCourse` has returned to its worker.
FinishedUnits ==
    {i \in DOMAIN courses : StartsOf(courses[i].path) # {} /\ ~InFlight(courses[i].path)}
StatsEvents == SelectSeq(emitted, LAMBDA e : e.type = "stats:update")
Counted(s) == s.completed + s.failed

\* C32: no update of the counters is lost, whatever the interleaving of the
\* workers: completed + failed is at every point the number of units that
\* have finished, each published snapshot counts exactly one unit more than
\* the one before it, and at the return of runWorkerPool the sum is the
\* length of the results list.
C32_NoLostStatsUpdate ==
    /\ poolPc # "notStarted" => Counted(stats) = Cardinality(FinishedUnits)
    /\ \A k \in 1..Len(StatsEvents) : Counted(StatsEvents[k].stats) = k - 1
    /\ poolPc = "returned" => Counted(stats) = Len(results)

\* Two workers have each finished a unit, one counted as failed, and the
\* pool has returned.
C32_Witness ==
    /\ poolPc = "returned"
    /\ concurrency = 2
    /\ Len(results) = 2
    /\ stats.failed >= 1
    /\ \E i, j \in EventIdx :
          /\ emitted[i].type = "worker:complete" /\ emitted[j].type = "worker:complete"
          /\ emitted[i].workerId # emitted[j].workerId


\* The chunks whose call, made before call n, reported files, in call order.
FilesReportedBefore(n) ==
    SelectSeq([j \in 1..(n - 1) |-> j], LAMBDA j : chunkCalls[j].files > 0)

\* C33: the calls of runChunkedGenerator for one large project are made one
\* at a time in chunk order: a call is made only when every earlier call has
\* returned, it is handed the files reported by all earlier chunks, and a
\* chunk that throws or reports errors does not stop the loop: when the
\* chunk loop has ended, every chunk has had its call.
C33_ChunkCallsSequential ==
    /\ \A n \in 1..Len(chunkCalls) :
          /\ chunkCalls[n].chunk = n
          /\ n < Len(chunkCalls) => chunkCalls[n].returned
          /\ chunkCalls[n].previouslyGeneratedFiles = FilesReportedBefore(n)
    /\ largePc = "chunk" =>
          /\ Len(chunkCalls) = chunkNo
          /\ ~chunkCalls[chunkNo].returned
    /\ (largePc = "returned" /\ chunks # <<>>) =>
          /\ Len(chunkCalls) = Len(chunks)
          /\ \A n \in 1..Len(chunkCalls) : chunkCalls[n].returned

\* Three chunks: the first call threw, the second reported files and an
\* error, and the third was still made, with the second chunk's files.
C33_Witness ==
    /\ largePc = "returned"
    /\ Len(chunkCalls) = 3
    /\ chunkCalls[1].threw
    /\ chunkCalls[2].files > 0 /\ chunkCalls[2].errors > 0
    /\ chunkCalls[3].previouslyGeneratedFiles = <<2>>


CallIdxOf(l) == {k \in DOMAIN calls : calls[k].listener = l}
\* The step is the first call, or the second call, of the unsubscribe
\* function of listener l.
UnsubscribeCalled(l) == unsubscribed'[l] # unsubscribed[l]

\* C34: once the unsubscribe function of a listener has been called, the
\* listener is called for no event published later, while a listener that is
\* still subscribed has been called for every event published since it
\* subscribed; the call removes that listener alone and delivers nothing,
\* and a further call of the same unsubscribe function changes nothing.
C34_UnsubscribeStopsDelivery ==
    /\ [](\A l \in Listeners :
            /\ unsubscribed[l].called =>
                  /\ ~includes(listeners, l)
                  /\ \A k \in CallIdxOf(l) : calls[k].event <= unsubscribed[l].first
            /\ includes(listeners, l) =>
                  \A e \in (firstOn[l] + 1)..Len(published) :
                      \E k \in CallIdxOf(l) : calls[k].event = e)
    /\ [][\A l \in Listeners : UnsubscribeCalled(l) =>
            /\ listeners' = SelectSeq(listeners, LAMBDA x : x # l)
            /\ calls' = calls
            /\ published' = published
            /\ unsubscribed[l].called => listeners' = listeners]_vars

\* A listener was unsubscribed after the first event, its unsubscribe
\* function was called a second time, and a second event has been delivered
\* to another listener but not to it.
C34_Witness ==
    \E l, m \in Listeners :
        /\ l # m
        /\ unsubscribed[l].again
        /\ unsubscribed[l].first = 1
        /\ Len(published) = 2
        /\ \E k \in CallIdxOf(l) : calls[k].event = 1
        /\ \E k \in CallIdxOf(m) : calls[k].event = 2


\* C35: when every processCourse call returns, runWorkerPool resolves unless
\* the process is ended first, which only a second signal does: it resolves
\* with the queue drained and with a graceful shutdown requested at any
\* point; and whenever it has resolved, no unit is in flight and every worker
\* it started has left its loop.
C35_PoolEventuallyResolves ==
    /\ <>(poolPc = "returned" \/ processExited)
    /\ [](processExited => (ctrlCCount >= 2 \/ emergencyCtrlCCount >= 2))
    /\ [](poolPc = "returned" =>
            /\ activeWorkers = <<>>
            /\ \A w \in Workers : workerPc[w] \in {"unborn", "exited"}
            /\ (\E w \in Workers : workerPc[w] = "exited") =>
                  \A w \in Workers : w < concurrency => workerPc[w] = "exited")

\* The pool has resolved after a graceful shutdown that left pending units
\* in the queue, with the units dispatched before it recorded.
C35_Witness ==
    /\ poolPc = "returned"
    /\ ~processExited
    /\ controller.isShuttingDown
    /\ Len(queue) > 0
    /\ Len(results) >= 1


StatsSum(s) == s.completed + s.failed + s.skipped + s.remaining
IsSnapshot(e) == e.type = "stats:update" \/ e.type = "pool:complete"

\* C36: every stats snapshot published by the pool has completed + failed +
\* skipped + remaining <= total; the snapshot published with pool:complete
\* has the sum equal to total, its remaining being the number of pending
\* units that were never dispatched, which is 0 unless a shutdown was
\* requested.
C36_SnapshotsWithinTotal ==
    \A i \in EventIdx :
        LET e == emitted[i] IN
        /\ IsSnapshot(e) => StatsSum(e.stats) <= e.stats.total
        /\ e.type = "pool:complete" =>
              /\ StatsSum(e.stats) = e.stats.total
              /\ e.stats.remaining = Len(pendingCourses(courses)) - Len(StartEvents)
              /\ ~controller.isShuttingDown => e.stats.remaining = 0

\* pool:complete has been published after a shutdown that left a pending
\* unit undispatched, and an earlier snapshot, published while another unit
\* was in flight, had a sum below total.
C36_Witness ==
    \E i, j \in EventIdx :
        /\ i < j
        /\ emitted[i].type = "stats:update"
        /\ StatsSum(emitted[i].stats) < emitted[i].stats.total
        /\ emitted[j].type = "pool:complete"
        /\ emitted[j].stats.remaining > 0


GenerationEventTypes ==
    {"worker:generation:start", "worker:generation:progress", "worker:github:start",
     "worker:github:skipped", "worker:github:failed", "worker:github:complete"}
\* The events published by the worker of unit c from the unit's start to its
\* closing event (to the end of the log while the unit is in flight).
UnitEventsOf(c) ==
    {j \in EventIdx :
        \E i \in StartsOf(c) :
            /\ i < j
            /\ emitted[j].type \in UnitEventTypes \cup GenerationEventTypes
            /\ emitted[j].workerId = emitted[i].workerId
            /\ \A k \in CloseEventsOf(c) : j <= k}
\* The last stats:update published before position i.
LastSnapshotBefore(i) ==
    CHOOSE k \in 1..(i - 1) :
        /\ emitted[k].type = "stats:update"
        /\ \A m \in (k + 1)..(i - 1) : emitted[m].type # "stats:update"

\* C37: a course whose discovery left no manifest gets the result
\* 'no_projects' with at least one error and no generated project; nothing
\* of the generation phase is started for it; and when the pool records it,
\* completed goes up by one and failed stays as it was.
C37_NoManifestIsNoProjects ==
    \A c \in DOMAIN agentResult :
        agentResult[c].manifestNull =>
            /\ agentResult[c].status = "no_projects"
            /\ agentResult[c].errors > 0
            /\ agentResult[c].projectsGenerated = <<>>
            /\ \A j \in UnitEventsOf(c) : emitted[j].type \notin GenerationEventTypes
            /\ \A i \in CloseEventsOf(c) :
                  LET before == emitted[LastSnapshotBefore(i)].stats
                      after == emitted[i + 1].stats
                  IN /\ emitted[i].type = "worker:complete"
                     /\ emitted[i].result.status = "no_projects"
                     /\ after.completed = before.completed + 1
                     /\ after.failed = before.failed

\* One course went through a discovery call that left no manifest and has
\* been recorded, while the other course of the run had a project generated.
C37_Witness ==
    \E c, d \in DOMAIN agentResult :
        /\ agentResult[c].manifestNull
        /\ discoveryCalls[c] = 1
        /\ manifestFile[c].kind = "absent"
        /\ CloseEventsOf(c) # {}
        /\ Len(agentResult[d].projectsGenerated) > 0


IsWorkerEvent(e) == e.type \in UnitEventTypes \cup GenerationEventTypes \cup {"worker:idle"}
IdleEventsOf(w) == {i \in EventIdx : emitted[i] = EvWorkerIdle(w)}
EventsOfType(t) == {i \in EventIdx : emitted[i].type = t}

\* C38: in a run with a pending unit, a worker has published worker:idle
\* exactly once when it has left its loop and not before, and publishes
\* nothing after it; pool:start is published once, before every worker
\* event; pool:complete is published once runWorkerPool has returned, exactly
\* once, after every worker event, when each of the `concurrency` workers has
\* published its worker:idle.
C38_IdleOncePerWorker ==
    (poolPc # "notStarted" /\ Len(pendingCourses(courses)) > 0) =>
        /\ \A w \in Workers :
              /\ Cardinality(IdleEventsOf(w)) = IF workerPc[w] = "exited" THEN 1 ELSE 0
              /\ \A i \in IdleEventsOf(w) : \A j \in EventIdx :
                    (j > i /\ IsWorkerEvent(emitted[j])) => emitted[j].workerId # w
        /\ Cardinality(EventsOfType("pool:start")) = 1
        /\ \A i \in EventsOfType("pool:start") : \A j \in EventIdx :
              IsWorkerEvent(emitted[j]) => i < j
        /\ \A j \in EventIdx : IsWorkerEvent(emitted[j]) => emitted[j].workerId \in Workers
        /\ Cardinality(EventsOfType("pool:complete")) = IF poolPc = "returned" THEN 1 ELSE 0
        /\ \A i \in EventsOfType("pool:complete") :
              /\ \A j \in EventIdx : IsWorkerEvent(emitted[j]) => j < i
              /\ \A w \in Workers : Cardinality(IdleEventsOf(w)) = 1

\* The pool has returned with two workers that each saw the shutdown after
\* finishing a unit and stopped, a third unit being left in the queue.
C38_Witness ==
    /\ poolPc = "returned"
    /\ concurrency = 2
    /\ controller.isShuttingDown
    /\ Len(queue) = 1
    /\ Len(results) = 2
    /\ \A w \in Workers : Cardinality(IdleEventsOf(w)) = 1


PoolCompletePublished == EventsOfType("pool:complete") # {}

\* C39: in the TUI variant, once pool:complete has been published the
\* promise of startTUI resolves and runSynthesizer returns, in every
\* interleaving of the TUI's start-up with scanning and processing.
C39_TuiResolvesAfterPoolComplete ==
    PoolCompletePublished ~> (tuiPc = "resolved" /\ synthPc = "returned")


\* The step is a call of detectCourseState (a scan of the course).
Scanned == scans' = scans + 1
\* What every call of detectCourseState keeps to: a 'skipped' answer is given
\* for a course with its output directory and leaves the disk as it was;
\* progress.json and project-findings.json are never touched; a change is
\* the removal of CODE/__CC_Projects on a path that answers 'pending'.
ScanFrame ==
    /\ scanned' = "skipped" => (disk.hasProjects /\ disk' = disk)
    /\ disk'.marker = disk.marker
    /\ disk'.hasManifest = disk.hasManifest
    /\ disk' # disk =>
          /\ disk.hasProjects
          /\ disk' = [disk EXCEPT !.hasProjects = FALSE]
          /\ scanned' = "pending"

\* C40 (as stated): detectCourseState leaves the disk unchanged when it
\* answers 'skipped'; the one change it makes is deleting CODE/__CC_Projects,
\* on a 'pending' path for a marker that is started or corrupt; it never
\* writes or deletes progress.json or project-findings.json.
C40_CleanupOnlyForStartedOrCorrupt ==
    [][Scanned =>
          /\ ScanFrame
          /\ disk' # disk => disk.marker \in {"started", "corrupt"}]_vars

\* C40 (amended): the same, the deletion being made for a marker that is
\* unparseable or has any status other than complete/completed.
C40_CleanupOnlyForIncomplete ==
    [][Scanned =>
          /\ ScanFrame
          /\ disk' # disk => disk.marker \notin {"absent", "complete", "completed"}]_vars

\* A course whose progress.json has a status that is neither started nor
\* complete was scanned once: its output directory is gone, its manifest is
\* still there, and it is queued.
C40_Witness ==
    /\ scans = 1
    /\ pipeline = "none"
    /\ disk0.marker = "other"
    /\ disk0.hasProjects /\ disk0.hasManifest
    /\ ~disk.hasProjects /\ disk.hasManifest
    /\ disk.marker = "other"
    /\ scanned = "pending"

====
